---- MODULE Spec2Model ----
(***************************************************************************)
(* CIUSuite2: the raw-file batch of the main window (CIU2_Main.py), the    *)
(* processing pipeline process_raw_obj, replicate averaging average_ciu,   *)
(* and the pickled analysis snapshot (save_analysis_obj/load_analysis_obj) *)
(* over CIUAnalysisObj (CIU_analysis_obj.py).  Raw_Processing is not part  *)
(* of the sources at hand: its stages follow sections 4.1-4.4 of the       *)
(* specification.                                                          *)
(*                                                                         *)
(* Matrices are sequences of rows (one row per drift-time bin), each row a *)
(* sequence over the collision-voltage columns.  Numbers are binary        *)
(* floating-point values of MantBits significant bits, written as integers *)
(* in units of 2^-FracBits; every arithmetic result is rounded to the      *)
(* nearest representable value, ties to the even significand, as numpy's   *)
(* float64 does with 53 bits.                                              *)
(***************************************************************************)
EXTENDS Integers, Sequences, FiniteSets, TLC

\* ------------------------------------------------------------------ bounds
MantBits == 3
FracBits == 3
MaxBatch == 2
MaxClicks == 1
MaxAvg == 3

\* Python's None; an optional integer n that is present is written <<n>>
None == <<>>
Some(n) == <<n>>

\* ------------------------------------------------- floating-point numbers
One == 2 ^ FracBits

Abs(x) == IF x < 0 THEN -x ELSE x

RECURSIVE Quantum(_)
\* spacing of the representable values around the magnitude v
Quantum(v) == IF v < 2 ^ MantBits THEN 1 ELSE 2 * Quantum(v \div 2)

IsFloat(v) == Abs(v) % Quantum(Abs(v)) = 0

\* the representable value nearest to n/d (n >= 0, d > 0), ties to even
RoundPos(n, d) ==
    LET q  == Quantum(n \div d)
        lo == ((n \div d) \div q) * q
        hi == lo + q
    IN  IF 2 * n < (lo + hi) * d THEN lo
        ELSE IF 2 * n > (lo + hi) * d THEN hi
        ELSE IF (lo \div q) % 2 = 0 THEN lo ELSE hi

FRound(n, d) == IF n < 0 THEN -RoundPos(-n, d) ELSE RoundPos(n, d)

FAdd(a, b) == FRound(a + b, 1)
FSub(a, b) == FRound(a - b, 1)
FMul(a, b) == FRound(a * b, One)
FDiv(a, b) == FRound(a * One, b)

\* the float of the integer n
Fl(n) == FRound(n * One, 1)

\* ------------------------------------------------------- sequences, matrices
Max(S) == CHOOSE x \in S : \A y \in S : y <= x
Min(S) == CHOOSE x \in S : \A y \in S : x <= y

\* the element of a one-element set: The({e(v) : v \in {x}}) is e(x), with x
\* evaluated once
The(S) == CHOOSE x \in S : TRUE

RECURSIVE PickIdx(_, _, _)
\* the entries of seq whose index is in K, from index i on, in order
PickIdx(seq, K, i) ==
    IF i > Len(seq) THEN <<>>
    ELSE (IF i \in K THEN <<seq[i]>> ELSE <<>>) \o PickIdx(seq, K, i + 1)

NRows(m) == Len(m)
NCols(m) == IF Len(m) = 0 THEN 0 ELSE Len(m[1])
Shape(m) == <<NRows(m), NCols(m)>>

\* ------------------------------------------------------------ file names
Chars(s) == {s[k] : k \in 1..Len(s)}

RECURSIVE rstrip(_, _)
\* str.rstrip(chars): drops every trailing character that is in the set
rstrip(s, chars) ==
    IF Len(s) > 0 /\ s[Len(s)] \in chars
    THEN rstrip(SubSeq(s, 1, Len(s) - 1), chars)
    ELSE s

RawSuffix == <<"_", "r", "a", "w", ".", "c", "s", "v">>
file_extension == <<".", "c", "i", "u">>

\* os.path.join(directory, basename) and os.path.dirname / os.path.basename
join(d, n) == [dir |-> d, name |-> n]
dirname(p) == p.dir
basename(p) == p.name

\* ------------------------------------------------------------ Raw_Processing
PolyOrder == 1

\* the outcome of a call: the exception raised (NoError: none) and the value
NoError == "NoError"
Ok(v) == [err |-> NoError, val |-> v]
Raise(e) == [err |-> e, val |-> None]

\* get_data: the first row of the table carries the CV axis, the first column
\* the DT axis, the remaining cells the intensities
get_data(fname, table) ==
    IF \/ Len(table) < 2
       \/ \E r \in 1..Len(table) : Len(table[r]) # Len(table[1])
       \/ Len(table[1]) < 2
    THEN Raise("InputFormatError")
    ELSE Ok([rawdata  |-> [r \in 1..(Len(table) - 1) |->
                              [c \in 1..(Len(table[1]) - 1) |-> table[r + 1][c + 1]]],
             dt_axis  |-> [r \in 1..(Len(table) - 1) |-> table[r + 1][1]],
             cv_axis  |-> [c \in 1..(Len(table[1]) - 1) |-> table[1][c + 1]],
             filepath |-> fname,
             filename |-> basename(fname)])

ColMax(m, c) == Max({m[r][c] : r \in 1..NRows(m)})

\* Normalizer: every column scaled by its own maximum; a column whose
\* maximum is zero is left unchanged
normalize_by_col(m) ==
    [r \in 1..NRows(m) |->
        [c \in 1..NCols(m) |->
            IF ColMax(m, c) = 0 THEN m[r][c] ELSE FDiv(m[r][c], ColMax(m, c))]]

\* numpy.linspace(start, stop, n)[k], k = 0..n-1
linspace(start, stop, n, k) ==
    IF k = n - 1 THEN stop
    ELSE FAdd(start, FMul(Fl(k), FDiv(FSub(stop, start), Fl(n - 1))))

\* value at the axis point p of the piecewise-linear curve through (ax, col)
Lerp(ax, col, p) ==
    LET i == Max({1} \cup {j \in 1..(Len(ax) - 1) : ax[j] <= p})
    IN  FAdd(col[i],
             FDiv(FMul(FSub(col[i + 1], col[i]), FSub(p, ax[i])),
                  FSub(ax[i + 1], ax[i])))

\* Interpolator: the drift-time axis resampled to n evenly spaced points
interpolate_cv(data, axes, n) ==
    IF n < 2 \/ Len(axes[1]) < 2 THEN Raise("ConfigurationError")
    ELSE LET dt    == axes[1]
             newdt == [k \in 1..n |-> linspace(dt[1], dt[Len(dt)], n, k - 1)]
         IN  Ok(<<[k \in 1..n |->
                     [c \in 1..NCols(data) |->
                        Lerp(dt, [r \in 1..NRows(data) |-> data[r][c]], newdt[k])]],
                  <<newdt, axes[2]>>>>)

\* the row index nearest to r inside the matrix
Clamp(m, r) == Max({1, Min({NRows(m), r})})

RECURSIVE WindowSum(_, _, _, _, _)
\* float sum of column c over the rows r+k .. r+h (row indices clamped)
WindowSum(m, r, c, k, h) ==
    IF k = h THEN m[Clamp(m, r + k)][c]
    ELSE FAdd(WindowSum(m, r, c, k, h - 1), m[Clamp(m, r + h)][c])

\* Smoother: one pass of the order-PolyOrder polynomial filter of odd
\* window w along the drift-time dimension of every column
sav_gol_smooth(m, w) ==
    IF w % 2 = 0 \/ w > NRows(m) \/ w <= PolyOrder THEN Raise("ConfigurationError")
    ELSE LET h == (w - 1) \div 2
         IN  Ok([r \in 1..NRows(m) |->
                   [c \in 1..NCols(m) |->
                      FDiv(WindowSum(m, r, c, -h, h), Fl(w))]])

\* Cropper: the rows/columns whose axis value lies within the inclusive bounds
crop(data, axes, vals) ==
    LET rows == {r \in 1..Len(axes[1]) : vals[1] <= axes[1][r] /\ axes[1][r] <= vals[2]}
        cols == {c \in 1..Len(axes[2]) : vals[3] <= axes[2][c] /\ axes[2][c] <= vals[4]}
    IN  IF vals[1] > vals[2] \/ vals[3] > vals[4] \/ rows = {} \/ cols = {}
        THEN Raise("AxisMismatchError")
        ELSE Ok(<<[r \in 1..Cardinality(rows) |-> PickIdx(PickIdx(data, rows, 1)[r], cols, 1)],
                  <<PickIdx(axes[1], rows, 1), PickIdx(axes[2], cols, 1)>>>>)

\* ----------------------------------------------------------- CIUAnalysisObj
SetAttr(obj, name, val) ==
    [k \in DOMAIN obj \cup {name} |-> IF k = name THEN val ELSE obj[k]]

\* CIUAnalysisObj.init_gauss_lists
init_gauss_lists(obj, gauss_params) ==
    [obj EXCEPT !.gauss_params     = gauss_params,
                !.gauss_baselines  = [k \in 1..Len(gauss_params) |-> gauss_params[k][1]],
                !.gauss_amplitudes = [k \in 1..Len(gauss_params) |-> gauss_params[k][2]],
                !.gauss_centroids  = [k \in 1..Len(gauss_params) |-> gauss_params[k][3]],
                !.gauss_widths     = [k \in 1..Len(gauss_params) |-> gauss_params[k][4]]]

\* CIUAnalysisObj.__init__
CIUAnalysisObj(ciu_raw_obj, ciu_data, axes_, gauss_params) ==
    LET blank == [raw_obj           |-> ciu_raw_obj,
                  ciu_data          |-> ciu_data,
                  axes              |-> axes_,
                  gauss_params      |-> None,
                  gauss_baselines   |-> None,
                  gauss_amplitudes  |-> None,
                  gauss_centroids   |-> None,
                  gauss_widths      |-> None,
                  gauss_fwhms       |-> None,
                  gauss_adj_r2s     |-> None,
                  gauss_fits        |-> None,
                  gauss_covariances |-> None,
                  gauss_r2s         |-> None,
                  gauss_resolutions |-> None,
                  gauss_fit_stats   |-> None]
    IN  IF gauss_params # None THEN init_gauss_lists(blank, gauss_params) ELSE blank

\* ------------------------------------------------------------------ pickle
\* The pickle of an object is its class name and the (attribute, value)
\* pairs of its __dict__; objects held in attributes are pickled inside it.
AttrOrder ==
    <<"raw_obj", "ciu_data", "axes", "gauss_params", "gauss_baselines",
      "gauss_amplitudes", "gauss_centroids", "gauss_widths", "gauss_fwhms",
      "gauss_adj_r2s", "gauss_fits", "gauss_covariances", "gauss_r2s",
      "gauss_resolutions", "gauss_fit_stats", "features", "params", "raw_obj_list",
      "filename", "rawdata", "dt_axis", "cv_axis", "filepath",
      "interpolation_bins", "smoothing_window", "smoothing_iterations",
      "cropping_window_values", "save_output_csv", "combine_output_file">>

Items(obj) ==
    LET keys == PickIdx(AttrOrder, {k \in 1..Len(AttrOrder) : AttrOrder[k] \in DOMAIN obj}, 1)
    IN  [k \in 1..Len(keys) |-> <<keys[k], obj[keys[k]]>>]

FromItems(items) ==
    [a \in {items[k][1] : k \in 1..Len(items)} |->
        items[CHOOSE k \in 1..Len(items) : items[k][1] = a][2]]

dump_plain(cls, obj) == [cls |-> cls, state |-> Items(obj)]
load_plain(pk) == FromItems(pk.state)

pickle_dump(obj) ==
    [cls   |-> "CIUAnalysisObj",
     state |-> LET items == Items(obj)
               IN  [k \in 1..Len(items) |->
                      <<items[k][1],
                        CASE items[k][1] = "raw_obj" -> dump_plain("CIURaw", items[k][2])
                          [] items[k][1] = "params"  -> dump_plain("Parameters", items[k][2])
                          [] items[k][1] = "raw_obj_list" ->
                                [j \in 1..Len(items[k][2]) |-> dump_plain("CIURaw", items[k][2][j])]
                          [] OTHER -> items[k][2]>>]]

pickle_load(pk) ==
    LET items == pk.state
    IN  FromItems([k \in 1..Len(items) |->
                      <<items[k][1],
                        CASE items[k][1] \in {"raw_obj", "params"} -> load_plain(items[k][2])
                          [] items[k][1] = "raw_obj_list" ->
                                [j \in 1..Len(items[k][2]) |-> load_plain(items[k][2][j])]
                          [] OTHER -> items[k][2]>>])

\* --------------------------------------------------------------- the disk
ExistingDirs == {"dirA", "dirB", "out"}

WriteFile(d, path, content) ==
    [q \in DOMAIN d \cup {path} |-> IF q = path THEN content ELSE d[q]]

\* save_analysis_obj: the path, the object (its filename set) and the disk
picklefile(analysis_obj, filename_append, outputdir) ==
    IF None # outputdir
    THEN join(outputdir, rstrip(analysis_obj.raw_obj.filename, Chars(RawSuffix))
                            \o filename_append \o file_extension)
    ELSE join(dirname(analysis_obj.raw_obj.filepath),
              rstrip(analysis_obj.raw_obj.filename, Chars(RawSuffix))
                 \o filename_append \o file_extension)

save_analysis_obj_DumpsUnnamed(d, analysis_obj, filename_append, outputdir) ==
    LET pf  == picklefile(analysis_obj, filename_append, outputdir)
        obj == SetAttr(analysis_obj, "filename", pf)
    IN  IF dirname(pf) \notin ExistingDirs
        THEN [err |-> "FileNotFoundError", path |-> None, obj |-> obj, disk |-> d]
        ELSE [err |-> NoError, path |-> pf, obj |-> obj,
              disk |-> WriteFile(d, pf, [kind |-> "ciu", bytes |-> pickle_dump(analysis_obj)])]

save_analysis_obj_RenamesRaw(d, analysis_obj, filename_append, outputdir) ==
    LET pf  == picklefile(analysis_obj, filename_append, outputdir)
        obj == SetAttr(analysis_obj, "raw_obj",
                       SetAttr(analysis_obj.raw_obj, "filename", basename(pf)))
    IN  IF dirname(pf) \notin ExistingDirs
        THEN [err |-> "FileNotFoundError", path |-> None, obj |-> obj, disk |-> d]
        ELSE [err |-> NoError, path |-> pf, obj |-> obj,
              disk |-> WriteFile(d, pf, [kind |-> "ciu", bytes |-> pickle_dump(obj)])]

save_analysis_obj(d, analysis_obj, filename_append, outputdir) ==
    LET pf  == picklefile(analysis_obj, filename_append, outputdir)
        obj == SetAttr(analysis_obj, "filename", pf)
    IN  IF dirname(pf) \notin ExistingDirs
        THEN [err |-> "FileNotFoundError", path |-> None, obj |-> obj, disk |-> d]
        ELSE [err |-> NoError, path |-> pf, obj |-> obj,
              disk |-> WriteFile(d, pf, [kind |-> "ciu", bytes |-> pickle_dump(obj)])]

load_analysis_obj(d, analysis_filename) ==
    IF analysis_filename \notin DOMAIN d THEN Raise("FileNotFoundError")
    ELSE IF d[analysis_filename].kind # "ciu" THEN Raise("UnpicklingError")
    ELSE Ok(pickle_load(d[analysis_filename].bytes))

\* --------------------------------------------------------- Gaussian_Fitting
\* the float nearest to 2.3548, the ratio of a Gaussian's FWHM to its width
FwhmFactor == RoundPos(23548 * One, 10000)

\* the width of the initial guess
DefaultWidth == One

\* not-a-number, the marker of a value that could not be computed
NaN == -(2 ^ (MantBits + FracBits + 2))

RECURSIVE FSum(_, _)
\* float sum of the first n entries of seq
FSum(seq, n) == IF n = 0 THEN 0 ELSE FAdd(FSum(seq, n - 1), seq[n])

Column(m, c) == [r \in 1..NRows(m) |-> m[r][c]]

\* exp(-d^2 / (2 w^2)), tabulated at whole multiples of the width
Bell(d, w) ==
    LET q == FDiv(Abs(d), w)
    IN  IF 2 * q < One THEN One
        ELSE IF 2 * q < 3 * One THEN FRound(5 * One, 8)
        ELSE IF 2 * q < 5 * One THEN FRound(One, 8)
        ELSE 0

\* the parameter record [baseline, amplitude, centroid, width] of one column:
\* baseline the column minimum, amplitude the column maximum, centroid the
\* drift time at the maximum
fit_column(dt, col) ==
    LET top == Min({r \in 1..Len(col) : col[r] = Max({col[k] : k \in 1..Len(col)})})
    IN  <<Min({col[k] : k \in 1..Len(col)}), col[top], dt[top], DefaultWidth>>

gauss_curve(dt, p) == [r \in 1..Len(dt) |-> FAdd(p[1], FMul(p[2], Bell(dt[r] - p[3], p[4])))]

\* R^2 = 1 - SS_res / SS_tot
r_squared(col, fit) ==
    LET n      == Len(col)
        mean   == FDiv(FSum(col, n), Fl(n))
        ss_res == FSum([r \in 1..n |-> FMul(FSub(col[r], fit[r]), FSub(col[r], fit[r]))], n)
        ss_tot == FSum([r \in 1..n |-> FMul(FSub(col[r], mean), FSub(col[r], mean))], n)
    IN  IF ss_tot = 0 THEN NaN ELSE FSub(One, FDiv(ss_res, ss_tot))

\* adjusted R^2 = 1 - (1 - R^2)(n - 1) / (n - p - 1), p = 4 free parameters
adj_r_squared(r2, n) ==
    IF r2 = NaN \/ n - 4 - 1 = 0 THEN NaN
    ELSE FSub(One, FDiv(FMul(FSub(One, r2), Fl(n - 1)), Fl(n - 4 - 1)))

\* gaussian_fit_ciu: one parameter record per CV column, in CV-axis order,
\* and the arrays derived from the records
gaussian_fit_ciu(analysis_obj, params) ==
    LET dt     == analysis_obj.axes[1]
        data   == analysis_obj.ciu_data
        ncol   == NCols(data)
        popt   == [c \in 1..ncol |-> fit_column(dt, Column(data, c))]
        fits   == [c \in 1..ncol |-> gauss_curve(dt, popt[c])]
        fwhms  == [c \in 1..ncol |-> FMul(popt[c][4], FwhmFactor)]
        r2s    == [c \in 1..ncol |-> r_squared(Column(data, c), fits[c])]
        adj    == [c \in 1..ncol |-> adj_r_squared(r2s[c], Len(dt))]
    IN  [init_gauss_lists(analysis_obj, popt)
            EXCEPT !.gauss_fwhms       = fwhms,
                   !.gauss_resolutions = [c \in 1..ncol |-> FDiv(popt[c][3], fwhms[c])],
                   !.gauss_r2s         = r2s,
                   !.gauss_adj_r2s     = adj,
                   !.gauss_fits        = fits,
                   !.gauss_covariances = [c \in 1..ncol |-> [i \in 1..4 |-> [j \in 1..4 |-> 0]]],
                   !.gauss_fit_stats   = [c \in 1..ncol |-> <<r2s[c], adj[c]>>]]

\* ----------------------------------------- CIUAnalysisObj.save_gauss_params
PoptAppend  == <<"_", "c", "u", "r", "v", "e", "f", "i", "t", "_", "p", "o", "p", "t", ".", "n", "p", "y">>
PcovAppend  == <<"_", "c", "u", "r", "v", "e", "f", "i", "t", "_", "p", "c", "o", "v", ".", "n", "p", "y">>
StatsAppend == <<"_", "c", "u", "r", "v", "e", "f", "i", "t", "_", "s", "t", "a", "t", "s", ".", "n", "p", "y">>
GaussCsvAppend == <<"_", "o", "u", "t", "a", "r", "r", "a", "y", "g", "a", "u", "s", "s",
                    "f", "i", "t", ".", "c", "s", "v">>
GaussCsvHeader == <<"TrapCV", "ATD_centroid", "ATD_width", "ATD_FWHM", "ATD_Resolution",
                    "R^2", "Adj_R^2">>

\* numpy.transpose: a vector is its own transpose, a matrix swaps its axes
np_transpose(a, is_matrix) ==
    IF ~is_matrix THEN a
    ELSE [c \in 1..NCols(a) |-> [r \in 1..NRows(a) |-> a[r][c]]]

\* numpy.savetxt: one line per entry of a vector (a single field), one line
\* per row of a matrix
np_savetxt(a, is_matrix, header) ==
    [kind   |-> "csv", header |-> header,
     table  |-> IF is_matrix THEN a ELSE [r \in 1..Len(a) |-> <<a[r]>>]]

\* save_gauss_params(outputpath): the table written to
\* <outputpath>/<raw file name>_outarraygaussfit.csv
save_gauss_params(d, obj, outputpath) ==
    LET outarray  == <<obj.axes[1], obj.gauss_centroids, obj.gauss_widths, obj.gauss_fwhms,
                       obj.gauss_resolutions, obj.gauss_r2s, obj.gauss_adj_r2s>>[1]
        outarray2 == np_transpose(outarray, FALSE)
        npy(disk_, append, value) ==
            WriteFile(disk_, join(outputpath, obj.raw_obj.filename \o append),
                      [kind |-> "npy", value |-> value])
        d1 == npy(d, PoptAppend, obj.gauss_params)
        d2 == npy(d1, PcovAppend, obj.gauss_covariances)
        d3 == npy(d2, StatsAppend, obj.gauss_fit_stats)
    IN  WriteFile(d3, join(outputpath, obj.raw_obj.filename \o GaussCsvAppend),
                  np_savetxt(outarray2, FALSE, GaussCsvHeader))

\* ------------------------------------------------------------- average_ciu
RECURSIVE SumAt_DropsLast(_, _, _, _)
SumAt_DropsLast(ciu_data_list, r, c, n) ==
    IF n <= 2 THEN ciu_data_list[1][r][c]
    ELSE FAdd(SumAt_DropsLast(ciu_data_list, r, c, n - 1), ciu_data_list[n - 1][r][c])

RECURSIVE SumAt(_, _, _, _)
\* numpy's add.reduce over the first n matrices of the list, at cell (r, c)
SumAt(ciu_data_list, r, c, n) ==
    IF n = 1 THEN ciu_data_list[1][r][c]
    ELSE FAdd(SumAt(ciu_data_list, r, c, n - 1), ciu_data_list[n][r][c])

np_mean_CountPlusOne(ciu_data_list) ==
    IF \E k \in 1..Len(ciu_data_list) : Shape(ciu_data_list[k]) # Shape(ciu_data_list[1])
    THEN Raise("ValueError")
    ELSE Ok([r \in 1..NRows(ciu_data_list[1]) |->
               [c \in 1..NCols(ciu_data_list[1]) |->
                  FDiv(SumAt(ciu_data_list, r, c, Len(ciu_data_list)),
                       Fl(Len(ciu_data_list) + 1))]])

\* numpy.mean(ciu_data_list, axis=0); numpy refuses a ragged list
np_mean(ciu_data_list) ==
    IF \E k \in 1..Len(ciu_data_list) : Shape(ciu_data_list[k]) # Shape(ciu_data_list[1])
    THEN Raise("ValueError")
    ELSE Ok([r \in 1..NRows(ciu_data_list[1]) |->
               [c \in 1..NCols(ciu_data_list[1]) |->
                  FDiv(SumAt(ciu_data_list, r, c, Len(ciu_data_list)),
                       Fl(Len(ciu_data_list)))]])

AvgAppend == <<"_", "A", "v", "g">>

average_ciu_CopiesFirst(d, obj_list, params, output_dir_) ==
    LET raw_obj_list  == [k \in 1..Len(obj_list) |-> obj_list[k].raw_obj]
        ciu_data_list == [k \in 1..Len(obj_list) |-> obj_list[k].ciu_data]
    IN  IF Len(obj_list) = 0
        THEN [err |-> "IndexError", obj |-> None, disk |-> d, presave |-> None]
        ELSE IF np_mean(ciu_data_list).err # NoError
        THEN [err |-> np_mean(ciu_data_list).err, obj |-> None, disk |-> d, presave |-> None]
        ELSE LET built == SetAttr(SetAttr(
                             SetAttr(obj_list[1], "ciu_data", np_mean(ciu_data_list).val),
                             "params", obj_list[1].params),
                             "raw_obj_list", raw_obj_list)
                 saved_ == save_analysis_obj(d, built, AvgAppend, None)
             IN  IF saved_.err # NoError
                 THEN [err |-> saved_.err, obj |-> None, disk |-> d, presave |-> None]
                 ELSE [err |-> NoError, obj |-> SetAttr(saved_.obj, "filename", saved_.path),
                       disk |-> saved_.disk, presave |-> built]

average_ciu(d, obj_list, params, output_dir_) ==
    LET raw_obj_list  == [k \in 1..Len(obj_list) |-> obj_list[k].raw_obj]
        ciu_data_list == [k \in 1..Len(obj_list) |-> obj_list[k].ciu_data]
    IN  IF Len(obj_list) = 0
        THEN [err |-> "IndexError", obj |-> None, disk |-> d, presave |-> None]
        ELSE IF np_mean(ciu_data_list).err # NoError
        THEN [err |-> np_mean(ciu_data_list).err, obj |-> None, disk |-> d, presave |-> None]
        ELSE LET built == SetAttr(SetAttr(
                             CIUAnalysisObj(raw_obj_list[1], np_mean(ciu_data_list).val,
                                            obj_list[1].axes, None),
                             "params", obj_list[1].params),
                             "raw_obj_list", raw_obj_list)
                 saved_ == save_analysis_obj(d, built, AvgAppend, None)
             IN  IF saved_.err # NoError
                 THEN [err |-> saved_.err, obj |-> None, disk |-> d, presave |-> None]
                 ELSE [err |-> NoError, obj |-> SetAttr(saved_.obj, "filename", saved_.path),
                       disk |-> saved_.disk, presave |-> built]

\* ------------------------------------------------ check_file_range_entries
\* list[start:end] of Python, 0-based, negative indices counted from the end
PySlice(seq, start, end) ==
    LET n  == Len(seq)
        lo == IF start < 0 THEN Max({0, start + n}) ELSE Min({start, n})
        hi == IF end < 0 THEN Max({0, end + n}) ELSE Min({end, n})
    IN  SubSeq(seq, lo + 1, hi)

\* an entry is None (empty or not a number) or <<n>>, the integer typed
check_file_range_entries(file_list, entry_start, entry_end) ==
    LET start_file == IF entry_start = None THEN 0 ELSE entry_start[1] - 1
        end_file   == IF entry_end = None THEN Len(file_list) ELSE entry_end[1]
    IN  PySlice(file_list, start_file, end_file)

\* ------------------------------------------------------ files and options
Name(stem) == stem \o RawSuffix

raw_x == join("dirA", Name(<<"x">>))
raw_y == join("dirA", Name(<<"y">>))
raw_z == join("dirB", Name(<<"z">>))
raw_w == join("dirB", Name(<<"w">>))
RawPaths == {raw_x, raw_y, raw_z}

\* the raw tables on disk: x, y and w are well formed, z has a short row
RawTable(p) ==
    CASE p = raw_x -> << <<0, Fl(1), Fl(2)>>,
                         <<Fl(1), Fl(2), 0>>,
                         <<Fl(2), Fl(6), 0>>,
                         <<Fl(3), Fl(4), Fl(4)>> >>
      [] p = raw_w -> << <<0, Fl(1), Fl(2)>>,
                         <<Fl(1), Fl(4), Fl(1)>>,
                         <<Fl(2), Fl(2), Fl(3)>>,
                         <<Fl(3), 0, Fl(6)>> >>
      [] p = raw_y -> << <<0, Fl(1), Fl(2)>>,
                         <<Fl(1), Fl(1), Fl(4)>>,
                         <<Fl(2), Fl(3), Fl(1)>>,
                         <<Fl(3), Fl(2), Fl(2)>> >>
      [] OTHER     -> << <<0, Fl(1), Fl(2)>>,
                         <<Fl(1), Fl(2)>>,
                         <<Fl(2), Fl(6), 0>> >>

\* the tuples of distinct files a file chooser can return (<<>> on cancel)
Selections(S, n) ==
    {sel \in UNION {[1..k -> S] : k \in 0..n} :
        \A a, b \in 1..Len(sel) : a # b => sel[a] # sel[b]}

Parameters(bins, window, iterations, cropvals) ==
    [interpolation_bins     |-> bins,
     smoothing_window       |-> window,
     smoothing_iterations   |-> iterations,
     cropping_window_values |-> cropvals,
     save_output_csv        |-> FALSE]

MaxIter == 2
CropOk  == <<Fl(2), Fl(3), Fl(1), Fl(2)>>
CropBad == <<Fl(3), Fl(2), Fl(1), Fl(2)>>

\* the parameter files a user can load: every combination of present and
\* absent options, and files with an invalid option
ParamFiles ==
    {Parameters(b, w, k, c) : b \in {None, Some(5)}, w \in {None, Some(3)},
                              k \in 1..MaxIter, c \in {None, CropOk}}
    \cup {Parameters(Some(1), None, 1, None), Parameters(None, Some(2), 1, None),
          Parameters(Some(1), Some(2), 1, CropOk), Parameters(None, None, 1, CropBad)}

hard_output_default == "out"

\* ------------------------------------------------------------------- state
VARIABLES
    analysis_file_list, output_dir, params_obj,   \* the fields of CIUSuite2
    disk,                                         \* path -> file content
    pc,                                           \* position of the running handler
    raw_files, file_idx,                          \* on_button_rawfile_clicked
    raw_obj, norm_data, axes, smooth_i,           \* process_raw_obj
    analysis_obj,
    analysis_obj_list, averaged_obj,              \* average_ciu
    stage_log,         \* the stages run on the current raw object, in order
    saved,             \* the last object handed to save_analysis_obj, and its path
    error,             \* the exception that ended the last handler, or NoError
    last_op, clicks,
    budget,            \* the number of button clicks of the session
    call               \* the last whole-handler call: its inputs, the state before, its results

vars == <<analysis_file_list, output_dir, params_obj, disk, pc, raw_files, file_idx,
          raw_obj, norm_data, axes, smooth_i, analysis_obj, analysis_obj_list,
          averaged_obj, stage_log, saved, error, last_op, clicks, budget, call>>

gui      == <<analysis_file_list, output_dir, params_obj>>
pipeline == <<raw_obj, norm_data, axes, smooth_i, analysis_obj>>
averaging == <<analysis_obj_list, averaged_obj>>
session == <<budget, call>>

NoCall == [op |-> "none"]

\* the state a handler starts from
Before ==
    [analysis_file_list |-> analysis_file_list, output_dir |-> output_dir,
     params_obj |-> params_obj, disk |-> disk]

Init ==
    /\ analysis_file_list = <<>>
    /\ output_dir = hard_output_default
    /\ params_obj \in ParamFiles
    /\ disk = [p \in RawPaths |-> [kind |-> "csv", table |-> RawTable(p)]]
    /\ pc = "idle"
    /\ raw_files = <<>>
    /\ file_idx = 0
    /\ raw_obj = None
    /\ norm_data = None
    /\ axes = None
    /\ smooth_i = 0
    /\ analysis_obj = None
    /\ analysis_obj_list = <<>>
    /\ averaged_obj = None
    /\ stage_log = <<>>
    /\ saved = None
    /\ error = NoError
    /\ last_op = "none"
    /\ clicks = 0
    /\ budget = MaxClicks
    /\ call = NoCall

Logged(stage, input, output) ==
    Append(stage_log, [stage |-> stage, input |-> input, output |-> output])

\* an exception leaves the handler; Tk reports it and the main loop goes on
Abort(e) ==
    /\ pc' = "idle"
    /\ error' = e
    /\ last_op' = "rawfile"

\* ------------------------------------------------------- process_raw_obj
\* the statement order of process_raw_obj: the stage that follows a stage
After_CropBeforeSmooth(stage) ==
    CASE stage = "normalize"   -> "interpolate"
      [] stage = "interpolate" -> "crop"
      [] stage = "crop"        -> "smooth"
      [] stage = "smooth"      -> "build"
      [] OTHER                 -> "save"

After(stage) ==
    CASE stage = "normalize"   -> "interpolate"
      [] stage = "interpolate" -> "smooth"
      [] stage = "smooth"      -> "crop"
      [] stage = "crop"        -> "build"
      [] OTHER                 -> "save"

\* if params_obj.interpolation_bins is not None
WantsInterpolation_OnlyWithSmoothing(params) ==
    params.interpolation_bins # None /\ params.smoothing_window # None

WantsInterpolation(params) == params.interpolation_bins # None

\* if params_obj.smoothing_window is not None: while i < smoothing_iterations
SmoothAgain_Inclusive(params, i) ==
    params.smoothing_window # None /\ i <= params.smoothing_iterations

SmoothAgain(params, i) ==
    params.smoothing_window # None /\ i < params.smoothing_iterations

\* if params_obj.cropping_window_values is not None
WantsCrop(params) == params.cropping_window_values # None

RECURSIVE smooth_loop(_, _, _)
\* while i < params_obj.smoothing_iterations: norm_data = sav_gol_smooth(...)
smooth_loop(data, params, i) ==
    IF SmoothAgain(params, i)
    THEN LET got == sav_gol_smooth(data, params.smoothing_window[1])
         IN  IF got.err # NoError THEN got ELSE smooth_loop(got.val, params, i + 1)
    ELSE Ok(data)

process_raw_obj_HardParams(raw, params) ==
    LET norm   == normalize_by_col(raw.rawdata)
        ax     == <<raw.dt_axis, raw.cv_axis>>
        interp == IF WantsInterpolation(params)
                  THEN interpolate_cv(norm, ax, params.interpolation_bins[1])
                  ELSE Ok(<<norm, ax>>)
    IN  IF interp.err # NoError THEN Raise(interp.err)
        ELSE LET sm == smooth_loop(interp.val[1], params, 0)
             IN  IF sm.err # NoError THEN Raise(sm.err)
                 ELSE LET cr == IF WantsCrop(params)
                                THEN crop(sm.val, interp.val[2], params.cropping_window_values)
                                ELSE Ok(<<sm.val, interp.val[2]>>)
                      IN  IF cr.err # NoError THEN Raise(cr.err)
                          ELSE Ok(SetAttr(CIUAnalysisObj(raw, cr.val[1], cr.val[2], None),
                                          "params", Parameters(None, None, 1, None)))

\* process_raw_obj as one call: the analysis object, or the exception raised
process_raw_obj(raw, params) ==
    LET norm   == normalize_by_col(raw.rawdata)
        ax     == <<raw.dt_axis, raw.cv_axis>>
        interp == IF WantsInterpolation(params)
                  THEN interpolate_cv(norm, ax, params.interpolation_bins[1])
                  ELSE Ok(<<norm, ax>>)
    IN  IF interp.err # NoError THEN Raise(interp.err)
        ELSE LET sm == smooth_loop(interp.val[1], params, 0)
             IN  IF sm.err # NoError THEN Raise(sm.err)
                 ELSE LET cr == IF WantsCrop(params)
                                THEN crop(sm.val, interp.val[2], params.cropping_window_values)
                                ELSE Ok(<<sm.val, interp.val[2]>>)
                      IN  IF cr.err # NoError THEN Raise(cr.err)
                          ELSE Ok(SetAttr(CIUAnalysisObj(raw, cr.val[1], cr.val[2], None),
                                          "params", params))

\* ------------------------------------------------ on_button_rawfile_clicked
RawfileClicked ==
    /\ pc = "idle" /\ clicks < budget
    /\ \E sel \in Selections(RawPaths, MaxBatch) :
          /\ raw_files' = sel
          /\ pc' = IF Len(sel) = 0 THEN "display" ELSE "load"
    /\ analysis_file_list' = <<>>
    /\ file_idx' = 1
    /\ error' = NoError
    /\ last_op' = "none"
    /\ clicks' = clicks + 1
    /\ stage_log' = <<>>
    /\ UNCHANGED <<output_dir, params_obj, disk, pipeline, averaging, saved>>
    /\ UNCHANGED session

GenerateRawObj ==
    /\ pc = "load"
    /\ LET got == get_data(raw_files[file_idx], disk[raw_files[file_idx]].table)
       IN  IF got.err # NoError
           THEN Abort(got.err) /\ UNCHANGED raw_obj
           ELSE /\ raw_obj' = got.val
                /\ pc' = "normalize"
                /\ UNCHANGED <<error, last_op>>
    /\ stage_log' = <<>>
    /\ UNCHANGED <<gui, disk, raw_files, file_idx, norm_data, axes, smooth_i,
                   analysis_obj, averaging, saved, clicks>>
    /\ UNCHANGED session

Normalize ==
    /\ pc = "normalize"
    /\ norm_data' = normalize_by_col(raw_obj.rawdata)
    /\ axes' = <<raw_obj.dt_axis, raw_obj.cv_axis>>
    /\ stage_log' = Logged("normalize", raw_obj.rawdata, norm_data')
    /\ pc' = After("normalize")
    /\ UNCHANGED <<gui, disk, raw_files, file_idx, raw_obj, smooth_i, analysis_obj,
                   averaging, saved, error, last_op, clicks>>
    /\ UNCHANGED session

Interpolate ==
    /\ pc = "interpolate"
    /\ IF WantsInterpolation(params_obj)
       THEN LET got == interpolate_cv(norm_data, axes, params_obj.interpolation_bins[1])
            IN  IF got.err # NoError
                THEN Abort(got.err) /\ UNCHANGED <<norm_data, axes, stage_log, smooth_i>>
                ELSE /\ norm_data' = got.val[1]
                     /\ axes' = got.val[2]
                     /\ stage_log' = Logged("interpolate", norm_data, norm_data')
                     /\ pc' = After("interpolate")
                     /\ smooth_i' = 0
                     /\ UNCHANGED <<error, last_op>>
       ELSE /\ pc' = After("interpolate")
            /\ smooth_i' = 0
            /\ UNCHANGED <<norm_data, axes, stage_log, error, last_op>>
    /\ UNCHANGED <<gui, disk, raw_files, file_idx, raw_obj, analysis_obj, averaging,
                   saved, clicks>>
    /\ UNCHANGED session

Smooth ==
    /\ pc = "smooth"
    /\ IF SmoothAgain(params_obj, smooth_i)
       THEN LET got == sav_gol_smooth(norm_data, params_obj.smoothing_window[1])
            IN  IF got.err # NoError
                THEN Abort(got.err) /\ UNCHANGED <<norm_data, stage_log, smooth_i>>
                ELSE /\ norm_data' = got.val
                     /\ stage_log' = Logged("smooth", norm_data, norm_data')
                     /\ smooth_i' = smooth_i + 1
                     /\ UNCHANGED <<pc, error, last_op>>
       ELSE /\ pc' = After("smooth")
            /\ UNCHANGED <<norm_data, stage_log, smooth_i, error, last_op>>
    /\ UNCHANGED <<gui, disk, raw_files, file_idx, raw_obj, axes, analysis_obj,
                   averaging, saved, clicks>>
    /\ UNCHANGED session

Crop ==
    /\ pc = "crop"
    /\ IF WantsCrop(params_obj)
       THEN LET got == crop(norm_data, axes, params_obj.cropping_window_values)
            IN  IF got.err # NoError
                THEN Abort(got.err) /\ UNCHANGED <<norm_data, axes, stage_log>>
                ELSE /\ norm_data' = got.val[1]
                     /\ axes' = got.val[2]
                     /\ stage_log' = Logged("crop", norm_data, norm_data')
                     /\ pc' = After("crop")
                     /\ UNCHANGED <<error, last_op>>
       ELSE /\ pc' = After("crop")
            /\ UNCHANGED <<norm_data, axes, stage_log, error, last_op>>
    /\ UNCHANGED <<gui, disk, raw_files, file_idx, raw_obj, smooth_i, analysis_obj,
                   averaging, saved, clicks>>
    /\ UNCHANGED session

Build ==
    /\ pc = "build"
    /\ analysis_obj' = SetAttr(CIUAnalysisObj(raw_obj, norm_data, axes, None),
                               "params", params_obj)
    /\ stage_log' = Logged("build", norm_data, norm_data)
    /\ pc' = After("build")
    /\ UNCHANGED <<gui, disk, raw_files, file_idx, raw_obj, norm_data, axes, smooth_i,
                   averaging, saved, error, last_op, clicks>>
    /\ UNCHANGED session

Save ==
    /\ pc = "save"
    /\ LET out == save_analysis_obj(disk, analysis_obj, <<>>, None)
       IN  IF out.err # NoError
           THEN Abort(out.err)
                /\ UNCHANGED <<analysis_file_list, disk, file_idx, analysis_obj, saved>>
           ELSE /\ disk' = out.disk
                /\ analysis_obj' = out.obj
                /\ saved' = [path |-> out.path, obj |-> analysis_obj]
                /\ analysis_file_list' = Append(analysis_file_list, out.path)
                /\ file_idx' = file_idx + 1
                /\ pc' = IF file_idx < Len(raw_files) THEN "load" ELSE "display"
                /\ UNCHANGED <<error, last_op>>
    /\ UNCHANGED <<output_dir, params_obj, raw_files, raw_obj, norm_data, axes,
                   smooth_i, averaging, stage_log, clicks>>
    /\ UNCHANGED session

RawfileDone ==
    /\ pc = "display"
    /\ output_dir' = IF Len(raw_files) > 0 THEN dirname(analysis_file_list[1])
                     ELSE output_dir
    /\ pc' = "idle"
    /\ last_op' = "rawfile"
    /\ UNCHANGED <<analysis_file_list, params_obj, disk, raw_files, file_idx, pipeline,
                   averaging, stage_log, saved, error, clicks>>
    /\ UNCHANGED session

\* ---------------------------------------------- on_button_paramload_clicked
ParamloadClicked ==
    /\ pc = "idle" /\ clicks < budget
    /\ \/ \* new_param_file = open_files(...)[0] of a chosen file
          /\ params_obj' \in ParamFiles
          /\ error' = NoError
       \/ \* the chooser cancelled: open_files(...) is empty and [0] raises
          /\ params_obj' = params_obj
          /\ error' = "IndexError"
    /\ call' = [op |-> "paramload", before |-> Before]
    /\ last_op' = "paramload"
    /\ clicks' = clicks + 1
    /\ UNCHANGED <<analysis_file_list, output_dir, disk, pc, raw_files, file_idx,
                   pipeline, averaging, stage_log, saved, budget>>

\* ------------------------------------------------- on_button_oldavg_clicked
EntryValues == {None} \cup {Some(n) : n \in 0..(MaxBatch + 1)}

OldavgClicked ==
    /\ pc = "idle" /\ clicks < budget
    /\ \E entry_start, entry_end \in EntryValues :
        LET files_to_read == check_file_range_entries(analysis_file_list,
                                                      entry_start, entry_end)
            loads == [k \in 1..Len(files_to_read) |->
                         load_analysis_obj(disk, files_to_read[k])]
            objs  == [k \in 1..Len(files_to_read) |-> loads[k].val]
            out   == average_ciu(disk, objs, params_obj, output_dir)
        IN  /\ call' = [op |-> "oldavg", before |-> Before, files_to_read |-> files_to_read]
            /\ IF \E k \in 1..Len(loads) : loads[k].err # NoError
               THEN /\ error' = loads[Min({k \in 1..Len(loads) : loads[k].err # NoError})].err
                    /\ UNCHANGED <<analysis_file_list, disk, averaging, saved>>
               ELSE /\ analysis_obj_list' = objs
                    /\ IF out.err # NoError
                       THEN /\ error' = out.err
                            /\ UNCHANGED <<analysis_file_list, disk, averaged_obj, saved>>
                       ELSE /\ error' = NoError
                            /\ averaged_obj' = out.obj
                            /\ disk' = out.disk
                            /\ saved' = [path |-> out.obj.filename, obj |-> out.presave]
                            /\ analysis_file_list' = <<out.obj.filename>>
    /\ last_op' = "oldavg"
    /\ clicks' = clicks + 1
    /\ UNCHANGED <<output_dir, params_obj, pc, raw_files, file_idx, pipeline, stage_log,
                   budget>>

Next ==
    \/ RawfileClicked
    \/ GenerateRawObj
    \/ Normalize
    \/ Interpolate
    \/ Smooth
    \/ Crop
    \/ Build
    \/ Save
    \/ RawfileDone
    \/ ParamloadClicked
    \/ OldavgClicked

Spec == Init /\ [][Next]_vars

\* ------------------------------------------------ whole-handler sessions
\* A session of up to MaxOps button clicks, every handler run as a whole.
MaxOps == 2
GuiRawPaths == {raw_x, raw_w, raw_z}

InitGui ==
    /\ analysis_file_list = <<>>
    /\ output_dir = hard_output_default
    /\ params_obj \in {Parameters(None, None, 1, None), Parameters(None, Some(3), 1, CropOk)}
    /\ disk = [q \in GuiRawPaths |-> [kind |-> "csv", table |-> RawTable(q)]]
    /\ pc = "idle"
    /\ raw_files = <<>>
    /\ file_idx = 0
    /\ raw_obj = None
    /\ norm_data = None
    /\ axes = None
    /\ smooth_i = 0
    /\ analysis_obj = None
    /\ analysis_obj_list = <<>>
    /\ averaged_obj = None
    /\ stage_log = <<>>
    /\ saved = None
    /\ error = NoError
    /\ last_op = "none"
    /\ clicks = 0
    /\ budget = MaxOps
    /\ call = NoCall

\* one pass of the loop of on_button_rawfile_clicked: generate_raw_obj,
\* process_raw_obj, save_analysis_obj; the exception raised, or the path,
\* the object, the raw object and the disk
rawfile_pass(d, raw_file, params) ==
    The({IF got.err # NoError THEN [err |-> got.err, disk |-> d]
         ELSE The({IF obj.err # NoError THEN [err |-> obj.err, disk |-> d]
                   ELSE The({[err |-> out.err, path |-> out.path, obj |-> obj.val,
                              raw |-> got.val, disk |-> out.disk] :
                             out \in {save_analysis_obj(d, obj.val, <<>>, None)}}) :
                   obj \in {process_raw_obj(got.val, params)}}) :
         got \in {get_data(raw_file, d[raw_file].table)}})

RECURSIVE rawfile_loop(_, _, _, _, _, _)
\* for raw_file in raw_files: ...; analysis_file_list.append(analysis_filename);
\* an exception ends the loop
rawfile_loop(d, files, k, params, list, produced) ==
    IF k > Len(files)
    THEN [err |-> NoError, list |-> list, disk |-> d, produced |-> produced]
    ELSE The({IF pass.err # NoError
              THEN [err |-> pass.err, list |-> list, disk |-> pass.disk,
                    produced |-> produced]
              ELSE rawfile_loop(pass.disk, files, k + 1, params, Append(list, pass.path),
                                Append(produced, [path |-> pass.path, obj |-> pass.obj,
                                                  raw |-> pass.raw])) :
              pass \in {rawfile_pass(d, files[k], params)}})

\* on_button_rawfile_clicked, the list the loop appends to being start_list
RawfileHandler(start_list) ==
    /\ pc = "idle" /\ clicks < budget
    /\ \E sel \in Selections(GuiRawPaths, MaxBatch) :
          \E out \in {rawfile_loop(disk, sel, 1, params_obj, start_list, <<>>)} :
              /\ analysis_file_list' = out.list
              /\ disk' = out.disk
              /\ error' = out.err
              /\ output_dir' = IF out.err = NoError /\ Len(sel) > 0
                               THEN dirname(out.list[1]) ELSE output_dir
              /\ saved' = IF Len(out.produced) > 0
                          THEN [path |-> out.produced[Len(out.produced)].path,
                                obj  |-> out.produced[Len(out.produced)].obj]
                          ELSE saved
              /\ call' = [op |-> "rawfile", raw_files |-> sel, before |-> Before,
                          produced |-> out.produced]
    /\ last_op' = "rawfile"
    /\ clicks' = clicks + 1
    /\ UNCHANGED <<params_obj, pc, raw_files, file_idx, pipeline, averaging, stage_log,
                   budget>>

OnButtonRawfileClicked_KeepsList == RawfileHandler(analysis_file_list)

OnButtonRawfileClicked == RawfileHandler(<<>>)

\* on_button_changedir_clicked: the directory chosen, or '' on cancel
NoDir == ""

OnButtonChangedirClicked ==
    /\ pc = "idle" /\ clicks < budget
    /\ \E newdir \in ExistingDirs \cup {NoDir} :
          output_dir' = newdir
    /\ call' = [op |-> "changedir", before |-> Before]
    /\ error' = NoError
    /\ last_op' = "changedir"
    /\ clicks' = clicks + 1
    /\ UNCHANGED <<analysis_file_list, params_obj, disk, pc, raw_files, file_idx, pipeline,
                   averaging, stage_log, saved, budget>>

\* one pass of the loop of on_button_gaussfit_clicked: load_analysis_obj,
\* gaussian_fit_ciu, save_analysis_obj(outputdir=self.output_dir)
gaussfit_pass(d, file, params, outdir) ==
    The({IF got.err # NoError THEN [err |-> got.err, path |-> None, disk |-> d]
         ELSE The({The({[err |-> out.err, path |-> out.path, disk |-> out.disk] :
                        out \in {save_analysis_obj(d, fitted, <<>>, outdir)}}) :
                   fitted \in {gaussian_fit_ciu(got.val, params)}}) :
         got \in {load_analysis_obj(d, file)}})

RECURSIVE gaussfit_loop(_, _, _, _, _, _)
\* for file in files_to_read: ...; new_file_list.append(filename)
gaussfit_loop(d, files, k, params, outdir, new_file_list) ==
    IF k > Len(files)
    THEN [err |-> NoError, disk |-> d, new_file_list |-> new_file_list]
    ELSE The({IF pass.err # NoError
              THEN [err |-> pass.err, disk |-> pass.disk, new_file_list |-> new_file_list]
              ELSE gaussfit_loop(pass.disk, files, k + 1, params, outdir,
                                 Append(new_file_list, pass.path)) :
              pass \in {gaussfit_pass(d, files[k], params, outdir)}})

OnButtonGaussfitClicked ==
    /\ pc = "idle" /\ clicks < budget
    /\ \E entry_start, entry_end \in EntryValues :
          \E files_to_read \in {check_file_range_entries(analysis_file_list,
                                                          entry_start, entry_end)} :
          \E out \in {gaussfit_loop(disk, files_to_read, 1, params_obj, output_dir, <<>>)} :
              /\ disk' = out.disk
              /\ error' = out.err
              /\ saved' = IF Len(out.new_file_list) > 0
                          THEN LET last == out.new_file_list[Len(out.new_file_list)]
                               IN  [path |-> last,
                                    obj  |-> load_analysis_obj(out.disk, last).val]
                          ELSE saved
              /\ call' = [op |-> "gaussfit", files_to_read |-> files_to_read,
                          before |-> Before, new_file_list |-> out.new_file_list]
    /\ last_op' = "gaussfit"
    /\ clicks' = clicks + 1
    /\ UNCHANGED <<analysis_file_list, output_dir, params_obj, pc, raw_files, file_idx,
                   pipeline, averaging, stage_log, budget>>

NextGui ==
    \/ OnButtonRawfileClicked
    \/ OnButtonChangedirClicked
    \/ OnButtonGaussfitClicked
    \/ ParamloadClicked
    \/ OldavgClicked

SpecGui == InitGui /\ [][NextGui]_vars

\* ----------------------------------------------- average_ciu on any inputs
\* The analysis objects a user can have on disk from earlier runs: 1 x 2
\* matrices on the axes AxesA or AxesB (same lengths, another drift time),
\* a 2 x 2 matrix on AxesC, and every 1 x 2 matrix of values in [0, 1].
UnitFloats == {v \in 0..One : IsFloat(v)}

AxesA == << <<Fl(1)>>, <<Fl(1), Fl(2)>> >>
AxesB == << <<Fl(2)>>, <<Fl(1), Fl(2)>> >>
AxesC == << <<Fl(1), Fl(2)>>, <<Fl(1), Fl(2)>> >>

LoadedObj(rawpath, data, axes_) ==
    SetAttr(SetAttr(CIUAnalysisObj(get_data(rawpath, RawTable(rawpath)).val, data, axes_, None),
                    "params", Parameters(None, None, 1, None)),
            "filename", picklefile([raw_obj |-> get_data(rawpath, RawTable(rawpath)).val],
                                   <<>>, None))

ReplicatePool ==
    {LoadedObj(raw_x, << <<0, One>> >>, ax) : ax \in {AxesA, AxesB}}
    \cup {LoadedObj(raw_y, << <<One - 2, 3>> >>, ax) : ax \in {AxesA, AxesB}}
    \cup {LoadedObj(raw_x, << <<5, One - 1>> >>, ax) : ax \in {AxesA, AxesB}}
    \cup {LoadedObj(raw_y, << <<One, 4>>, <<2, One>> >>, AxesC)}

RepeatedLists ==
    {[k \in 1..n |-> LoadedObj(raw_x, << <<a, b>> >>, AxesA)] :
        a \in UnitFloats, b \in UnitFloats, n \in 1..MaxAvg}

InitAvg ==
    /\ analysis_file_list = <<>>
    /\ output_dir = hard_output_default
    /\ params_obj = Parameters(None, None, 1, None)
    /\ disk = [p \in RawPaths |-> [kind |-> "csv", table |-> RawTable(p)]]
    /\ pc = "average"
    /\ raw_files = <<>>
    /\ file_idx = 0
    /\ raw_obj = None
    /\ norm_data = None
    /\ axes = None
    /\ smooth_i = 0
    /\ analysis_obj = None
    /\ analysis_obj_list \in UNION {[1..n -> ReplicatePool] : n \in 0..MaxAvg}
                              \cup RepeatedLists
    /\ averaged_obj = None
    /\ stage_log = <<>>
    /\ saved = None
    /\ error = NoError
    /\ last_op = "none"
    /\ clicks = 0
    /\ budget = MaxClicks
    /\ call = NoCall

AverageCiu ==
    /\ pc = "average"
    /\ LET out == average_ciu(disk, analysis_obj_list, params_obj, output_dir)
       IN  /\ error' = out.err
           /\ averaged_obj' = out.obj
           /\ disk' = out.disk
           /\ saved' = IF out.err = NoError
                       THEN [path |-> out.obj.filename, obj |-> out.presave]
                       ELSE saved
    /\ pc' = "idle"
    /\ last_op' = "average"
    /\ UNCHANGED <<gui, raw_files, file_idx, pipeline, analysis_obj_list, stage_log, clicks>>
    /\ UNCHANGED session

NextAvg == AverageCiu

SpecAvg == InitAvg /\ [][NextAvg]_vars

\* ------------------------------------------ save_analysis_obj on any name
\* The raw files a user can have: every name of up to MaxStem characters
\* before the suffix '_raw.csv'.
MaxStem == 3
StemChars == {"x", "a", "v"}
RawNames == {Name(stem) : stem \in UNION {[1..n -> StemChars] : n \in 0..MaxStem}}

\* the outputdir arguments: the default (the raw file's directory) or a directory
OutputDirs == <<None, "out">>

InitNames ==
    /\ analysis_file_list = <<>>
    /\ output_dir = hard_output_default
    /\ params_obj = Parameters(None, None, 1, None)
    /\ raw_obj \in {get_data(join("dirA", nm), RawTable(raw_x)).val : nm \in RawNames}
    /\ disk = [p \in {raw_obj.filepath} |-> [kind |-> "csv", table |-> RawTable(raw_x)]]
    /\ pc = "name"
    /\ raw_files = <<>>
    /\ file_idx = 0
    /\ norm_data = normalize_by_col(raw_obj.rawdata)
    /\ axes = <<raw_obj.dt_axis, raw_obj.cv_axis>>
    /\ smooth_i = 0
    /\ analysis_obj = SetAttr(CIUAnalysisObj(raw_obj, norm_data, axes, None),
                              "params", params_obj)
    /\ analysis_obj_list = <<>>
    /\ averaged_obj = None
    /\ stage_log = <<>>
    /\ saved = None
    /\ error = NoError
    /\ last_op = "none"
    /\ clicks = 0
    /\ budget = MaxClicks
    /\ call = NoCall

\* one call of save_analysis_obj(analysis_obj, filename_append, outputdir)
SaveAnalysisObj ==
    /\ pc = "name"
    /\ \E filename_append \in {<<>>, AvgAppend}, k \in 1..Len(OutputDirs) :
          LET outputdir == OutputDirs[k]
              out == save_analysis_obj(disk, analysis_obj, filename_append, outputdir)
          IN  /\ error' = out.err
              /\ disk' = out.disk
              /\ analysis_obj' = out.obj
              /\ saved' = [path |-> out.path, obj |-> analysis_obj]
              /\ call' = [op |-> "save_analysis_obj",
                          filename_append |-> filename_append, outputdir |-> outputdir]
    /\ pc' = "idle"
    /\ last_op' = "save"
    /\ UNCHANGED <<gui, raw_files, file_idx, raw_obj, norm_data, axes, smooth_i,
                   averaging, stage_log, clicks, budget>>

NextNames == SaveAnalysisObj

SpecNames == InitNames /\ [][NextNames]_vars

\* ------------------------------------------- Gaussian data of an object
\* The parameter lists a caller can hand to CIUAnalysisObj or to
\* init_gauss_lists: one to MaxRecords records [baseline, amplitude,
\* centroid, width].
MaxRecords == 2
GaussRecords == {<<0, One, Fl(1), One>>, <<1, One - 1, Fl(2), Fl(2)>>, <<2, 4, Fl(3), One>>}
GaussParamLists == UNION {[1..n -> GaussRecords] : n \in 1..MaxRecords}

InitGauss ==
    /\ analysis_file_list = <<>>
    /\ output_dir = hard_output_default
    /\ params_obj \in {Parameters(None, None, 1, None), Parameters(Some(5), Some(3), 1, None),
                        Parameters(None, None, 1, CropOk)}
    /\ raw_obj \in {get_data(q, RawTable(q)).val : q \in {raw_x, raw_y}}
    /\ disk = [q \in RawPaths |-> [kind |-> "csv", table |-> RawTable(q)]]
    /\ pc = "gauss"
    /\ raw_files = <<>>
    /\ file_idx = 0
    /\ analysis_obj = process_raw_obj(raw_obj, params_obj).val
    /\ norm_data = analysis_obj.ciu_data
    /\ axes = analysis_obj.axes
    /\ smooth_i = 0
    /\ analysis_obj_list = <<>>
    /\ averaged_obj = None
    /\ stage_log = <<>>
    /\ saved = None
    /\ error = NoError
    /\ last_op = "none"
    /\ clicks = 0
    /\ budget = MaxClicks
    /\ call = NoCall

GaussFrame ==
    UNCHANGED <<gui, disk, raw_files, file_idx, raw_obj, norm_data, axes, smooth_i,
                averaging, stage_log, saved, error, clicks, budget>>

\* CIUAnalysisObj(raw_obj, ciu_data, axes, gauss_params)
ConstructWithGauss ==
    /\ pc = "gauss"
    /\ \E gauss_params \in GaussParamLists :
          /\ analysis_obj' = CIUAnalysisObj(raw_obj, norm_data, axes, gauss_params)
          /\ call' = [op |-> "construct", gauss_params |-> gauss_params]
    /\ pc' = "carrying"
    /\ last_op' = "construct"
    /\ GaussFrame

\* analysis_obj.init_gauss_lists(gauss_params)
InitGaussLists ==
    /\ pc = "gauss"
    /\ \E gauss_params \in GaussParamLists :
          /\ analysis_obj' = init_gauss_lists(analysis_obj, gauss_params)
          /\ call' = [op |-> "init_gauss_lists", gauss_params |-> gauss_params]
    /\ pc' = "carrying"
    /\ last_op' = "init_gauss_lists"
    /\ GaussFrame

\* Gaussian_Fitting.gaussian_fit_ciu(analysis_obj, params_obj)
GaussianFitCiu ==
    /\ pc = "gauss"
    /\ analysis_obj' = gaussian_fit_ciu(analysis_obj, params_obj)
    /\ call' = [op |-> "gaussian_fit_ciu", gauss_params |-> analysis_obj'.gauss_params]
    /\ pc' = "carrying"
    /\ last_op' = "gaussian_fit_ciu"
    /\ GaussFrame

\* analysis_obj.save_gauss_params(outputpath)
SaveGaussParams ==
    /\ pc = "carrying"
    /\ \E outputpath \in {"out", "dirA"} :
          /\ disk' = save_gauss_params(disk, analysis_obj, outputpath)
          /\ call' = [op |-> "save_gauss_params", outputpath |-> outputpath,
                      gauss_params |-> call.gauss_params, source |-> call.op]
    /\ pc' = "idle"
    /\ last_op' = "save_gauss_params"
    /\ UNCHANGED <<gui, raw_files, file_idx, pipeline, averaging, stage_log, saved,
                   error, clicks, budget>>

\* average_ciu over one to MaxAvg replicates that carry Gaussian data; the
\* replicates are processed objects (they have the params attribute)
AverageCiuOfCarried ==
    /\ pc = "carrying"
    /\ "params" \in DOMAIN analysis_obj
    /\ \E n \in 1..MaxAvg :
       \E out \in {average_ciu(disk, [k \in 1..n |-> analysis_obj], params_obj, output_dir)} :
          /\ analysis_obj_list' = [k \in 1..n |-> analysis_obj]
          /\ error' = out.err
          /\ averaged_obj' = out.obj
          /\ disk' = out.disk
          /\ saved' = IF out.err = NoError
                      THEN [path |-> out.obj.filename, obj |-> out.presave]
                      ELSE saved
    /\ call' = [op |-> "average_ciu", gauss_params |-> call.gauss_params, source |-> call.op]
    /\ pc' = "idle"
    /\ last_op' = "average"
    /\ UNCHANGED <<gui, raw_files, file_idx, pipeline, stage_log, clicks, budget>>

NextGauss ==
    \/ ConstructWithGauss
    \/ InitGaussLists
    \/ GaussianFitCiu
    \/ SaveGaussParams
    \/ AverageCiuOfCarried

SpecGauss == InitGauss /\ [][NextGauss]_vars

\* -------------------------------------- check_file_range_entries on any input
\* The lists of up to MaxList analysis files, and the entries a user can
\* type: nothing (or no number), or an integer.
MaxList == 3
CiuPaths == {join("dirA", <<"x">> \o file_extension), join("dirA", <<"y">> \o file_extension),
             join("dirB", <<"w">> \o file_extension)}
StartEntries == {None} \cup {Some(n) : n \in (-MaxList)..(MaxList + 1)}
EndEntries == {None} \cup {Some(n) : n \in 0..(MaxList + 1)}

InitRange ==
    /\ analysis_file_list \in Selections(CiuPaths, MaxList)
    /\ output_dir = hard_output_default
    /\ params_obj = Parameters(None, None, 1, None)
    /\ disk = [q \in RawPaths |-> [kind |-> "csv", table |-> RawTable(q)]]
    /\ pc = "range"
    /\ raw_files = <<>>
    /\ file_idx = 0
    /\ raw_obj = None
    /\ norm_data = None
    /\ axes = None
    /\ smooth_i = 0
    /\ analysis_obj = None
    /\ analysis_obj_list = <<>>
    /\ averaged_obj = None
    /\ stage_log = <<>>
    /\ saved = None
    /\ error = NoError
    /\ last_op = "none"
    /\ clicks = 0
    /\ budget = MaxClicks
    /\ call = NoCall

\* one call of self.check_file_range_entries()
CheckFileRangeEntries ==
    /\ pc = "range"
    /\ \E entry_start \in StartEntries, entry_end \in EndEntries :
          call' = [op |-> "check_file_range_entries",
                   entry_start |-> entry_start, entry_end |-> entry_end,
                   before |-> analysis_file_list,
                   files_to_read |-> check_file_range_entries(analysis_file_list,
                                                              entry_start, entry_end)]
    /\ pc' = "idle"
    /\ last_op' = "range"
    /\ UNCHANGED <<gui, disk, raw_files, file_idx, pipeline, averaging, stage_log, saved,
                   error, clicks, budget>>

NextRange == CheckFileRangeEntries

SpecRange == InitRange /\ [][NextRange]_vars

\* --------------------------------------------- on_button_oldcompare_clicked
\* the float nearest below the square root of v
FSqrt(v) == FRound(Max({r \in 0..(v + One) : r * r <= v * One}), 1)

\* Original_CIU.compare_basic_raw: the RMSD (%) of two processed matrices
\* on the same axes (the difference plot it draws is not modelled)
compare_basic_raw(ciu1, ciu2, params, output_dir_) ==
    IF ciu1.axes # ciu2.axes \/ Shape(ciu1.ciu_data) # Shape(ciu2.ciu_data)
    THEN Raise("AxisMismatchError")
    ELSE LET nc == NCols(ciu1.ciu_data)
             n  == NRows(ciu1.ciu_data) * nc
             sq == [k \in 1..n |->
                      FMul(FSub(ciu1.ciu_data[((k - 1) \div nc) + 1][((k - 1) % nc) + 1],
                                ciu2.ciu_data[((k - 1) \div nc) + 1][((k - 1) % nc) + 1]),
                           FSub(ciu1.ciu_data[((k - 1) \div nc) + 1][((k - 1) % nc) + 1],
                                ciu2.ciu_data[((k - 1) \div nc) + 1][((k - 1) % nc) + 1]))]
         IN  Ok(FMul(Fl(100), FSqrt(FDiv(FSum(sq, n), Fl(n)))))

\* '{:.2f}'.format(v): the number of hundredths nearest to v, ties to even
Fmt2(v) ==
    LET lo == (Abs(v) * 100) \div One
        r  == (Abs(v) * 100) % One
        up == IF 2 * r > One \/ (2 * r = One /\ lo % 2 = 1) THEN lo + 1 ELSE lo
    IN  IF v < 0 THEN -up ELSE up

\* list.index(x): the first position of x, positions counted from 1
IndexOf(seq, x) == Min({k \in 1..Len(seq) : seq[k] = x})

CiuSuffix == <<".", "c", "i", "u">>
RmsdHeader == <<"File 1", "File 2", "RMSD (%)">>
RmsdFile == <<"b", "a", "t", "c", "h", "_", "R", "M", "S", "D", "s", ".", "c", "s", "v">>

RECURSIVE batch_pairs(_, _, _)
\* the (pass, index) pairs the batch loops compare, in order: for file in
\* files_to_read, skip_index = files_to_read.index(file), while index < len
batch_pairs(files, p, index) ==
    IF p > Len(files) THEN <<>>
    ELSE IF index > Len(files) THEN batch_pairs(files, p + 1, 1)
    ELSE (IF ~(index = IndexOf(files, files[p])) THEN << <<p, index>> >> ELSE <<>>)
            \o batch_pairs(files, p, index + 1)

\* one comparison of the batch: both files loaded, compared, the row printed
batch_row(d, file, other, params, output_dir_) ==
    The({IF ciu1.err # NoError THEN Raise(ciu1.err)
         ELSE IF ciu2.err # NoError THEN Raise(ciu2.err)
         ELSE The({IF rmsd.err # NoError THEN Raise(rmsd.err)
                   ELSE Ok(<<rstrip(basename(file), Chars(CiuSuffix)),
                             rstrip(basename(other), Chars(CiuSuffix)),
                             Fmt2(rmsd.val)>>) :
                   rmsd \in {compare_basic_raw(ciu1.val, ciu2.val, params, output_dir_)}}) :
         ciu1 \in {load_analysis_obj(d, file)}, ciu2 \in {load_analysis_obj(d, other)}})

\* the files a user has in the list: snapshots saved by earlier runs
cmp_x == join("dirA", <<"x">> \o file_extension)
cmp_y == join("dirA", <<"y">> \o file_extension)
cmp_w == join("dirB", file_extension)
cmp_o == join("out", <<"y">> \o file_extension)
ComparePaths == {cmp_x, cmp_y, cmp_w, cmp_o}

CompareObj(q) ==
    CASE q = cmp_x -> LoadedObj(raw_x, << <<0, One>> >>, AxesA)
      [] q = cmp_y -> LoadedObj(raw_y, << <<One - 2, 3>> >>, AxesA)
      [] q = cmp_w -> LoadedObj(raw_w, << <<5, One - 1>> >>, AxesA)
      [] OTHER     -> SetAttr(LoadedObj(raw_y, << <<One, 4>> >>, AxesB), "filename", cmp_o)

\* the file chooser cancelled: askopenfilename returns ''
NoFile == join("", <<>>)

InitCompare ==
    /\ analysis_file_list \in UNION {[1..n -> ComparePaths] : n \in 0..MaxList}
    /\ output_dir = hard_output_default
    /\ params_obj = Parameters(None, None, 1, None)
    /\ disk = [q \in RawPaths \cup ComparePaths |->
                 IF q \in RawPaths THEN [kind |-> "csv", table |-> RawTable(q)]
                 ELSE [kind |-> "ciu", bytes |-> pickle_dump(CompareObj(q))]]
    /\ pc = "compare"
    /\ raw_files = <<>>
    /\ file_idx = 0
    /\ raw_obj = None
    /\ norm_data = None
    /\ axes = None
    /\ smooth_i = 0
    /\ analysis_obj = None
    /\ analysis_obj_list = <<>>
    /\ averaged_obj = None
    /\ stage_log = <<>>
    /\ saved = None
    /\ error = NoError
    /\ last_op = "none"
    /\ clicks = 0
    /\ budget = MaxClicks
    /\ call = NoCall

\* the comparisons of on_button_oldcompare_clicked on files: the pairs
\* compared, the rows printed and the first exception raised
Comparisons(d, files, params, output_dir_) ==
    The({The({[pairs |-> pairs, rows |-> rows,
               err |-> IF \E k \in 1..Len(rows) : rows[k].err # NoError
                       THEN rows[Min({k \in 1..Len(rows) : rows[k].err # NoError})].err
                       ELSE NoError] :
              rows \in {[k \in 1..Len(pairs) |->
                           batch_row(d, files[pairs[k][1]], files[pairs[k][2]],
                                     params, output_dir_)]}}) :
         pairs \in {IF Len(files) = 2 THEN << <<1, 2>> >>
                    ELSE IF Len(files) > 2 THEN batch_pairs(files, 1, 1)
                    ELSE <<>>}})

OnButtonOldcompareClicked ==
    /\ pc = "compare"
    /\ \E entry_start, entry_end \in EntryValues, newfile \in {raw_x, cmp_y, NoFile} :
       \E sliced \in {check_file_range_entries(analysis_file_list, entry_start, entry_end)} :
       \E files_to_read \in {IF Len(sliced) = 1 THEN Append(sliced, newfile) ELSE sliced} :
       \E out \in {Comparisons(disk, files_to_read, params_obj, output_dir)} :
          /\ analysis_file_list' = IF Len(sliced) = 1
                                   THEN Append(analysis_file_list, newfile)
                                   ELSE analysis_file_list
          /\ error' = IF out.err # NoError THEN out.err
                      ELSE IF Len(files_to_read) > 2 /\ output_dir \notin ExistingDirs
                      THEN "FileNotFoundError"
                      ELSE NoError
          /\ disk' = IF error' = NoError /\ Len(files_to_read) > 2
                     THEN WriteFile(disk, join(output_dir, RmsdFile),
                                    [kind  |-> "csv",
                                     lines |-> <<RmsdHeader>> \o
                                               [k \in 1..Len(out.rows) |-> out.rows[k].val]])
                     ELSE disk
          /\ call' = [op |-> "oldcompare", before |-> Before, files_to_read |-> files_to_read,
                      compared |-> out.pairs]
    /\ pc' = "idle"
    /\ last_op' = "oldcompare"
    /\ UNCHANGED <<output_dir, params_obj, raw_files, file_idx, pipeline, averaging,
                   stage_log, saved, clicks, budget>>

NextCompare == OnButtonOldcompareClicked

SpecCompare == InitCompare /\ [][NextCompare]_vars

\* ------------------------------------------ on_button_feature_detect_clicked
\* Feature_Detection.feature_detect_main: one transition for every pair of
\* neighbouring CV columns whose fitted centroids differ: its CV midpoint
\* and the centroids of the states it separates
feature_detect_main(obj, outputdir) ==
    IF None = obj.gauss_centroids THEN Raise("TypeError")
    ELSE Ok(SetAttr(obj, "features",
               LET cv    == obj.axes[2]
                   cen   == obj.gauss_centroids
                   steps == {c \in 1..(Len(cv) - 1) : cen[c] # cen[c + 1]}
               IN  [k \in 1..Cardinality(steps) |->
                      LET c == PickIdx([j \in 1..(Len(cv) - 1) |-> j], steps, 1)[k]
                      IN  [midpoint |-> FDiv(FAdd(cv[c], cv[c + 1]), Fl(2)),
                           low |-> cen[c], high |-> cen[c + 1]]]))

FeaturesAppend == <<"_", "f", "e", "a", "t", "u", "r", "e", "s", ".", "c", "s", "v">>
FeaturesShortAppend == <<"_", "f", "e", "a", "t", "u", "r", "e", "s", "-", "s", "h", "o",
                         "r", "t", ".", "c", "s", "v">>

\* analysis_obj.save_feature_outputs(outputdir, combine): the transition
\* report of the object, one row per transition
save_feature_outputs(obj) ==
    [k \in 1..Len(obj.features) |->
        <<obj.features[k].midpoint, obj.features[k].low, obj.features[k].high>>]

\* analysis_obj.save_features_short(outputdir, combine): the midpoints only
save_features_short(obj) == [k \in 1..Len(obj.features) |-> obj.features[k].midpoint]

\* save_existing_output_string, and the writes of save_feature_outputs and
\* save_features_short without combine: a text file holding the outputs
save_existing_output_string(d, full_output_path, string_to_save) ==
    WriteFile(d, full_output_path, [kind |-> "text", chunks |-> string_to_save])

\* one pass of the loop: the state of the handler's local variables after it
feature_pass(st, file, outdir) ==
    The({IF got.err # NoError THEN [st EXCEPT !.err = got.err]
         ELSE The({IF det.err # NoError THEN [st EXCEPT !.err = det.err]
              ELSE The({IF out.err # NoError THEN [st EXCEPT !.err = out.err]
                        ELSE The({IF ~out.obj.params.combine_output_file
                                  THEN [st EXCEPT
                                          !.disk = save_existing_output_string(
                                                      save_existing_output_string(out.disk,
                                                         join(outdir, out.obj.raw_obj.filename
                                                                         \o FeaturesAppend),
                                                         << <<stem, save_feature_outputs(out.obj)>> >>),
                                                      join(outdir, out.obj.raw_obj.filename
                                                                      \o FeaturesShortAppend),
                                                      << <<stem, save_features_short(out.obj)>> >>),
                                          !.filename = out.path,
                                          !.new_file_list = Append(@, out.path),
                                          !.outputs = Append(@, save_feature_outputs(out.obj)),
                                          !.combine_flag = FALSE]
                                  ELSE [st EXCEPT
                                          !.disk = out.disk,
                                          !.filename = out.path,
                                          !.new_file_list = Append(@, out.path),
                                          !.outputs = Append(@, save_feature_outputs(out.obj)),
                                          !.all_outputs =
                                              Append(@, <<stem, save_feature_outputs(out.obj)>>),
                                          !.short_outputs =
                                              Append(@, <<stem, save_features_short(out.obj)>>),
                                          !.combine_flag = TRUE] :
                                  stem \in {rstrip(basename(out.path), Chars(CiuSuffix))}}) :
                        out \in {save_analysis_obj(st.disk, det.val, <<>>, outdir)}}) :
              det \in {feature_detect_main(got.val, outdir)}}) :
         got \in {load_analysis_obj(st.disk, file)}})

RECURSIVE feature_loop(_, _, _, _)
\* for file in files_to_read: ...; an exception ends the loop
feature_loop(st, files, k, outdir) ==
    IF k > Len(files) \/ st.err # NoError THEN st
    ELSE The({feature_loop(next, files, k + 1, outdir) :
              next \in {feature_pass(st, files[k], outdir)}})

\* the listed files: fitted snapshots of earlier runs, each with the
\* combine_output_file option of the parameters it was processed with
feat_x == join("dirA", <<"x">> \o file_extension)
feat_y == join("dirA", <<"y">> \o file_extension)
feat_w == join("dirB", file_extension)
FeaturePaths == {feat_x, feat_y, feat_w}

FeatureObj(q) ==
    LET rawpath == IF q = feat_x THEN raw_x ELSE IF q = feat_y THEN raw_y ELSE raw_w
        params  == SetAttr(Parameters(None, None, 1, None), "combine_output_file", q # feat_y)
        obj     == process_raw_obj(get_data(rawpath, RawTable(rawpath)).val, params).val
    IN  SetAttr(gaussian_fit_ciu(SetAttr(obj, "params", params), params), "filename", q)

InitFeature ==
    /\ analysis_file_list \in Selections(FeaturePaths, MaxList)
    /\ output_dir \in {hard_output_default, "dirA"}
    /\ params_obj = SetAttr(Parameters(None, None, 1, None), "combine_output_file", FALSE)
    /\ disk = [q \in RawPaths \cup FeaturePaths |->
                 IF q \in RawPaths THEN [kind |-> "csv", table |-> RawTable(q)]
                 ELSE [kind |-> "ciu", bytes |-> pickle_dump(FeatureObj(q))]]
    /\ pc = "features"
    /\ raw_files = <<>>
    /\ file_idx = 0
    /\ raw_obj = None
    /\ norm_data = None
    /\ axes = None
    /\ smooth_i = 0
    /\ analysis_obj = None
    /\ analysis_obj_list = <<>>
    /\ averaged_obj = None
    /\ stage_log = <<>>
    /\ saved = None
    /\ error = NoError
    /\ last_op = "none"
    /\ clicks = 0
    /\ budget = MaxClicks
    /\ call = NoCall

OnButtonFeatureDetectClicked ==
    /\ pc = "features"
    /\ \E entry_start, entry_end \in EntryValues :
       \E files_to_read \in {check_file_range_entries(analysis_file_list,
                                                       entry_start, entry_end)} :
       \E st \in {feature_loop([err |-> NoError, disk |-> disk, new_file_list |-> <<>>,
                                all_outputs |-> <<>>, short_outputs |-> <<>>,
                                outputs |-> <<>>, filename |-> NoFile,
                                combine_flag |-> FALSE],
                               files_to_read, 1, output_dir)} :
          /\ error' = st.err
          /\ disk' = IF st.err = NoError /\ st.combine_flag
                     THEN save_existing_output_string(
                             save_existing_output_string(st.disk,
                                join(output_dir, rstrip(basename(st.filename), Chars(CiuSuffix))
                                                    \o FeaturesAppend),
                                st.all_outputs),
                             join(output_dir, rstrip(basename(st.filename), Chars(CiuSuffix))
                                                 \o FeaturesShortAppend),
                             st.short_outputs)
                     ELSE st.disk
          /\ call' = [op |-> "feature_detect", before |-> Before,
                      files_to_read |-> files_to_read, new_file_list |-> st.new_file_list,
                      outputs |-> st.outputs]
    /\ pc' = "idle"
    /\ last_op' = "feature_detect"
    /\ UNCHANGED <<analysis_file_list, output_dir, params_obj, raw_files, file_idx, pipeline,
                   averaging, stage_log, saved, clicks, budget>>

NextFeature == OnButtonFeatureDetectClicked

SpecFeature == InitFeature /\ [][NextFeature]_vars

\* ------------------------- on_button_crop_clicked, on_button_olddeltadt_clicked
CropAppend  == <<"_", "c", "r", "o", "p">>
DeltaAppend == <<"_", "d", "e", "l", "t", "a">>

\* Raw_Processing.crop(analysis_obj, crop_vals) as the crop handler calls it:
\* the Cropper applied to the matrix and the axes of the object
crop_analysis_obj(obj, vals) ==
    IF None = vals THEN Raise("TypeError")
    ELSE The({IF cr.err # NoError THEN Raise(cr.err)
              ELSE Ok([obj EXCEPT !.ciu_data = cr.val[1], !.axes = cr.val[2]]) :
              cr \in {crop(obj.ciu_data, obj.axes, vals)}})

\* Original_CIU.delta_dt: the drift-time axis shifted so that the first
\* centroid if the object is fitted, else the drift time of the maximum of
\* the first column, is at 0
delta_dt(obj) ==
    LET dt    == obj.axes[1]
        col   == [r \in 1..Len(dt) |-> obj.ciu_data[r][1]]
        top   == Min({r \in 1..Len(dt) : \A s \in 1..Len(dt) : col[s] <= col[r]})
        shift == IF None = obj.gauss_centroids THEN dt[top] ELSE obj.gauss_centroids[1]
    IN  Ok([obj EXCEPT !.axes = <<[r \in 1..Len(dt) |-> FSub(dt[r], shift)], obj.axes[2]>>])

\* Original_CIU.write_ciu_csv(save_path, ciu_data, axes): the matrix as a
\* raw table, the CV axis in the first row and the drift time in the first
\* column
write_ciu_csv(d, save_path, ciu_data, axes_) ==
    WriteFile(d, save_path,
              [kind |-> "csv",
               table |-> << <<0>> \o axes_[2] >>
                         \o [r \in 1..Len(axes_[1]) |-> <<axes_[1][r]>> \o ciu_data[r]]])

\* file.rstrip('.ciu') + append + '_raw.csv'
csv_save_path(file, append) ==
    join(dirname(file), rstrip(basename(file), Chars(CiuSuffix)) \o append \o RawSuffix)

\* one pass of the loop of either handler: op is "crop" or "delta_dt"
edit_pass(st, file, op, params, outdir) ==
    The({IF got.err # NoError THEN [st EXCEPT !.err = got.err]
         ELSE The({IF new.err # NoError THEN [st EXCEPT !.err = new.err]
              ELSE The({IF out.err # NoError THEN [st EXCEPT !.err = out.err]
                        ELSE [st EXCEPT
                                !.disk = IF params.save_output_csv
                                         THEN write_ciu_csv(out.disk,
                                                 csv_save_path(file, IF op = "crop"
                                                                     THEN CropAppend
                                                                     ELSE DeltaAppend),
                                                 new.val.ciu_data, new.val.axes)
                                         ELSE out.disk,
                                !.csv_list = IF params.save_output_csv
                                             THEN Append(@, csv_save_path(file,
                                                              IF op = "crop" THEN CropAppend
                                                              ELSE DeltaAppend))
                                             ELSE @,
                                !.new_file_list = Append(@, out.path)] :
                        out \in {save_analysis_obj(st.disk, new.val,
                                                   IF op = "crop" THEN CropAppend
                                                   ELSE DeltaAppend, outdir)}}) :
              new \in {IF op = "crop"
                       THEN crop_analysis_obj(got.val, params.cropping_window_values)
                       ELSE delta_dt(got.val)}}) :
         got \in {load_analysis_obj(st.disk, file)}})

RECURSIVE edit_loop(_, _, _, _, _, _)
\* for file in files_to_read: ...; an exception ends the loop
edit_loop(st, files, k, op, params, outdir) ==
    IF k > Len(files) \/ st.err # NoError THEN st
    ELSE The({edit_loop(next, files, k + 1, op, params, outdir) :
              next \in {edit_pass(st, files[k], op, params, outdir)}})

\* the handler of op: the list is replaced when the loop ends without an
\* exception
EditClicked(op) ==
    /\ pc = "idle" /\ clicks < budget
    /\ \E entry_start, entry_end \in EntryValues :
       \E files_to_read \in {check_file_range_entries(analysis_file_list,
                                                       entry_start, entry_end)} :
       \E st \in {edit_loop([err |-> NoError, disk |-> disk, new_file_list |-> <<>>,
                             csv_list |-> <<>>],
                            files_to_read, 1, op, params_obj, output_dir)} :
          /\ error' = st.err
          /\ disk' = st.disk
          /\ analysis_file_list' = IF st.err = NoError THEN st.new_file_list
                                   ELSE analysis_file_list
          /\ call' = [op |-> op, before |-> Before, files_to_read |-> files_to_read,
                      new_file_list |-> st.new_file_list, csv_list |-> st.csv_list]
    /\ last_op' = op
    /\ clicks' = clicks + 1
    /\ UNCHANGED <<output_dir, params_obj, pc, raw_files, file_idx, pipeline, averaging,
                   stage_log, saved, budget>>

OnButtonCropClicked == EditClicked("crop")

OnButtonOlddeltadtClicked == EditClicked("delta_dt")

\* the listed files: unfitted snapshots of earlier runs, next to their raw
\* files
edit_x == join("dirA", <<"x">> \o file_extension)
edit_y == join("dirA", <<"y">> \o file_extension)
EditPaths == {edit_x, edit_y}

EditObj(q) ==
    LET rawpath == IF q = edit_x THEN raw_x ELSE raw_y
        params  == Parameters(None, None, 1, None)
    IN  SetAttr(SetAttr(process_raw_obj(get_data(rawpath, RawTable(rawpath)).val, params).val,
                        "params", params),
                "filename", q)

InitEdit ==
    /\ analysis_file_list \in Selections(EditPaths, MaxBatch)
    /\ output_dir \in {hard_output_default, "dirA"}
    /\ params_obj \in {SetAttr(Parameters(None, None, 1, c), "save_output_csv", b) :
                          c \in {None, CropOk}, b \in BOOLEAN}
    /\ disk = [q \in RawPaths \cup EditPaths |->
                 IF q \in RawPaths THEN [kind |-> "csv", table |-> RawTable(q)]
                 ELSE [kind |-> "ciu", bytes |-> pickle_dump(EditObj(q))]]
    /\ pc = "idle"
    /\ raw_files = <<>>
    /\ file_idx = 0
    /\ raw_obj = None
    /\ norm_data = None
    /\ axes = None
    /\ smooth_i = 0
    /\ analysis_obj = None
    /\ analysis_obj_list = <<>>
    /\ averaged_obj = None
    /\ stage_log = <<>>
    /\ saved = None
    /\ error = NoError
    /\ last_op = "none"
    /\ clicks = 0
    /\ budget = MaxOps
    /\ call = NoCall

NextEdit ==
    \/ OnButtonCropClicked
    \/ OnButtonOlddeltadtClicked
    \/ OnButtonGaussfitClicked

SpecEdit == InitEdit /\ [][NextEdit]_vars

\* ----------------------------------------------- on_button_analysisfile_clicked
\* self.analysis_file_list[0]
first_entry(list) == IF Len(list) = 0 THEN Raise("IndexError") ELSE Ok(list[1])

OnButtonAnalysisfileClicked_NoExcept ==
    /\ pc = "idle" /\ clicks < budget
    /\ \E analysis_files \in Selections(CiuPaths, MaxList) :
       \E first \in {first_entry(analysis_files)} :
          /\ analysis_file_list' = analysis_files
          /\ output_dir' = IF first.err = NoError THEN dirname(first.val) ELSE output_dir
          /\ error' = first.err
          /\ call' = [op |-> "analysisfile", before |-> Before,
                      analysis_files |-> analysis_files]
    /\ last_op' = "analysisfile"
    /\ clicks' = clicks + 1
    /\ UNCHANGED <<params_obj, disk, pc, raw_files, file_idx, pipeline, averaging,
                   stage_log, saved, budget>>

\* the chooser returns the tuple of the files selected, empty on cancel; the
\* IndexError of the empty selection is caught and ignored
OnButtonAnalysisfileClicked ==
    /\ pc = "idle" /\ clicks < budget
    /\ \E analysis_files \in Selections(CiuPaths, MaxList) :
       \E first \in {first_entry(analysis_files)} :
          /\ analysis_file_list' = analysis_files
          /\ output_dir' = IF first.err = NoError THEN dirname(first.val) ELSE output_dir
          /\ error' = IF first.err = "IndexError" THEN NoError ELSE first.err
          /\ call' = [op |-> "analysisfile", before |-> Before,
                      analysis_files |-> analysis_files]
    /\ last_op' = "analysisfile"
    /\ clicks' = clicks + 1
    /\ UNCHANGED <<params_obj, disk, pc, raw_files, file_idx, pipeline, averaging,
                   stage_log, saved, budget>>

InitAnalysisfile ==
    /\ analysis_file_list = <<>>
    /\ output_dir = hard_output_default
    /\ params_obj = Parameters(None, None, 1, None)
    /\ disk = [q \in RawPaths |-> [kind |-> "csv", table |-> RawTable(q)]]
    /\ pc = "idle"
    /\ raw_files = <<>>
    /\ file_idx = 0
    /\ raw_obj = None
    /\ norm_data = None
    /\ axes = None
    /\ smooth_i = 0
    /\ analysis_obj = None
    /\ analysis_obj_list = <<>>
    /\ averaged_obj = None
    /\ stage_log = <<>>
    /\ saved = None
    /\ error = NoError
    /\ last_op = "none"
    /\ clicks = 0
    /\ budget = MaxOps
    /\ call = NoCall

NextAnalysisfile ==
    \/ OnButtonAnalysisfileClicked
    \/ OnButtonChangedirClicked

SpecAnalysisfile == InitAnalysisfile /\ [][NextAnalysisfile]_vars

\* =================================================================== claims
Stages(log) == [k \in 1..Len(log) |-> log[k].stage]
Count(log, stage) == Cardinality({k \in 1..Len(log) : log[k].stage = stage})

Rank(stage) ==
    CASE stage = "normalize"   -> 1
      [] stage = "interpolate" -> 2
      [] stage = "smooth"      -> 3
      [] stage = "crop"        -> 4
      [] OTHER                 -> 5

\* C1: process_raw_obj runs its stages in the order normalize, interpolate,
\* smooth, crop, build: in the log of the stages run on a raw object, no
\* stage stands before an earlier one, only smoothing repeats, and the first
\* stage is the normalization.
C1_StagesInOrder ==
    /\ \A i, j \in 1..Len(stage_log) :
          i < j => /\ Rank(stage_log[i].stage) <= Rank(stage_log[j].stage)
                   /\ Rank(stage_log[i].stage) = Rank(stage_log[j].stage)
                         => stage_log[i].stage = "smooth"
    /\ Len(stage_log) > 0 => stage_log[1].stage = "normalize"

C1_AllStagesRan ==
    Stages(stage_log) = <<"normalize", "interpolate", "smooth", "smooth", "crop", "build">>

\* C2: a ConfigurationError surfaces before any matrix transformation: when
\* the handler ends with a ConfigurationError, no stage (not even the
\* normalization) has run on the raw object.
C2_ConfigErrorBeforeAnyStage ==
    error = "ConfigurationError" => stage_log = <<>>

RECURSIVE SmoothTimes(_, _, _)
SmoothTimes(data, w, k) ==
    IF k = 0 THEN Ok(data)
    ELSE IF SmoothTimes(data, w, k - 1).err # NoError THEN SmoothTimes(data, w, k - 1)
    ELSE sav_gol_smooth(SmoothTimes(data, w, k - 1).val, w)

\* the raw file at path loads and runs through every requested stage
ProcessesCleanly(path, params) ==
    LET got == get_data(path, RawTable(path))
    IN  /\ got.err = NoError
        /\ LET n  == normalize_by_col(got.val.rawdata)
               ax == <<got.val.dt_axis, got.val.cv_axis>>
               i  == IF params.interpolation_bins # None
                     THEN interpolate_cv(n, ax, params.interpolation_bins[1])
                     ELSE Ok(<<n, ax>>)
           IN  /\ i.err = NoError
               /\ LET sm == IF params.smoothing_window # None
                            THEN SmoothTimes(i.val[1], params.smoothing_window[1],
                                             params.smoothing_iterations)
                            ELSE Ok(i.val[1])
                  IN  /\ sm.err = NoError
                      /\ \/ params.cropping_window_values = None
                         \/ crop(sm.val, i.val[2], params.cropping_window_values).err = NoError

AnalysisPathOf(rawpath) ==
    picklefile([raw_obj |-> [filename |-> basename(rawpath), filepath |-> rawpath]], <<>>, None)

\* C3: in the raw-file batch an error on one file aborts only that file: once
\* the handler has ended, every selected file that itself loads and processes
\* without error has its analysis file saved and listed.
C3_FailureAbortsOnlyThatFile ==
    (pc = "idle" /\ last_op = "rawfile") =>
        \A k \in 1..Len(raw_files) :
            ProcessesCleanly(raw_files[k], params_obj) =>
                /\ AnalysisPathOf(raw_files[k]) \in DOMAIN disk
                /\ \E j \in 1..Len(analysis_file_list) :
                      analysis_file_list[j] = AnalysisPathOf(raw_files[k])

\* C4: once the raw-file batch has ended, every selected file has exactly one
\* recorded outcome, a saved analysis path or a reported failure.
C4_OneOutcomePerFile ==
    (pc = "idle" /\ last_op = "rawfile") =>
        Len(analysis_file_list) + (IF error # NoError THEN 1 ELSE 0) = Len(raw_files)

\* C5: when the analysis object is built, the smoothing filter has run exactly
\* smoothing_iterations times if smoothing_window is present and not at all
\* if it is absent, and every pass took the output of the stage before it.
C5_SmoothingAppliedKTimes ==
    pc = "save" =>
        /\ Count(stage_log, "smooth") =
              IF params_obj.smoothing_window # None
              THEN params_obj.smoothing_iterations ELSE 0
        /\ \A k \in 2..Len(stage_log) :
              stage_log[k].stage = "smooth" =>
                 /\ stage_log[k].input = stage_log[k - 1].output
                 /\ stage_log[k].output =
                       sav_gol_smooth(stage_log[k].input, params_obj.smoothing_window[1]).val

C5_TwoPassesRan ==
    /\ pc = "save"
    /\ params_obj.smoothing_window # None
    /\ params_obj.smoothing_iterations = 2
    /\ \E k \in 1..(Len(stage_log) - 1) :
          /\ stage_log[k].stage = "smooth"
          /\ stage_log[k + 1].stage = "smooth"
          /\ stage_log[k + 1].output # stage_log[k].output

\* C6: when the analysis object is built, interpolation has run if and only
\* if interpolation_bins is present and cropping if and only if the cropping
\* bounds are present; with all three options absent the object holds the
\* normalized matrix and the raw object's DT and CV axes.
C6_OptionalStagesIffPresent ==
    pc = "save" =>
        /\ Count(stage_log, "interpolate") =
              IF params_obj.interpolation_bins # None THEN 1 ELSE 0
        /\ Count(stage_log, "crop") =
              IF params_obj.cropping_window_values # None THEN 1 ELSE 0
        /\ ( /\ params_obj.interpolation_bins = None
             /\ params_obj.smoothing_window = None
             /\ params_obj.cropping_window_values = None )
           => /\ analysis_obj.ciu_data = normalize_by_col(raw_obj.rawdata)
              /\ analysis_obj.axes = <<raw_obj.dt_axis, raw_obj.cv_axis>>

C6_NoOptionsObject ==
    /\ pc = "save"
    /\ params_obj.interpolation_bins = None
    /\ params_obj.smoothing_window = None
    /\ params_obj.cropping_window_values = None
    /\ Stages(stage_log) = <<"normalize", "build">>
    /\ analysis_obj.ciu_data # raw_obj.rawdata

Averaged == last_op = "average" /\ error = NoError

RECURSIVE ExactSum(_, _, _, _)
\* the sum, without rounding, of cell (r, c) over the first n inputs
ExactSum(obj_list, r, c, n) ==
    IF n = 0 THEN 0 ELSE ExactSum(obj_list, r, c, n - 1) + obj_list[n].ciu_data[r][c]

C8_MismatchedAxesRejected ==
    ( /\ last_op = "average"
      /\ \E i, j \in 1..Len(analysis_obj_list) :
            analysis_obj_list[i].axes # analysis_obj_list[j].axes )
    => /\ error = "AxisMismatchError"
       /\ None = averaged_obj
       /\ DOMAIN disk = RawPaths

ThreeCopies ==
    /\ last_op = "average"
    /\ Len(analysis_obj_list) = 3
    /\ \A k \in 1..3 : analysis_obj_list[k].ciu_data = analysis_obj_list[1].ciu_data

\* C9 as stated: the average of the same matrix taken three times equals the
\* matrix elementwise.
C9_RepeatedMatrixExact ==
    ThreeCopies =>
        /\ error = NoError
        /\ averaged_obj.ciu_data = analysis_obj_list[1].ciu_data

\* C9 amended: the average of the same matrix taken three times has the
\* matrix's shape, every element within one unit in the last place of the
\* matrix's element, and equal to it wherever three times the element is
\* representable.
C9_RepeatedMatrixWithinOneUlp ==
    ThreeCopies =>
        /\ error = NoError
        /\ Shape(averaged_obj.ciu_data) = Shape(analysis_obj_list[1].ciu_data)
        /\ \A r \in 1..NRows(averaged_obj.ciu_data) :
           \A c \in 1..NCols(averaged_obj.ciu_data) :
              LET x == analysis_obj_list[1].ciu_data[r][c]
                  a == averaged_obj.ciu_data[r][c]
              IN  /\ Abs(a - x) <= Quantum(x)
                  /\ IsFloat(3 * x) => a = x

C9_RepeatRounded ==
    /\ ThreeCopies
    /\ error = NoError
    /\ averaged_obj.ciu_data # analysis_obj_list[1].ciu_data

\* ------------------------------------------------ claims on the file names
\* the name without its last Len(suffix) characters when it ends with suffix
RemoveSuffix(name, suffix) ==
    IF /\ Len(name) >= Len(suffix)
       /\ SubSeq(name, Len(name) - Len(suffix) + 1, Len(name)) = suffix
    THEN SubSeq(name, 1, Len(name) - Len(suffix))
    ELSE name

\* C11: the snapshot file is named by exact-suffix removal: its name is the
\* raw file name without the literal suffix '_raw.csv' (every character that
\* precedes the suffix kept), followed by filename_append and '.ciu'.
C11_ExactSuffixRemoved ==
    call.op = "save_analysis_obj" =>
        basename(saved.path) =
            RemoveSuffix(raw_obj.filename, RawSuffix) \o call.filename_append \o file_extension

\* ---------------------------------------------- claims on the Gaussian data
FitArrays ==
    {"gauss_baselines", "gauss_amplitudes", "gauss_centroids", "gauss_widths",
     "gauss_fwhms", "gauss_resolutions", "gauss_r2s", "gauss_adj_r2s"}

\* C12: the table written by save_gauss_params for a fitted object has one
\* row per CV column, and the row of a column holds its CV value, centroid,
\* width, FWHM, resolution, R^2 and adjusted R^2.
C12_OneRowPerCvColumn ==
    (call.op = "save_gauss_params" /\ call.source = "gaussian_fit_ciu") =>
        LET file == disk[join(call.outputpath, raw_obj.filename \o GaussCsvAppend)]
            cv   == analysis_obj.axes[2]
        IN  /\ Len(file.table) = Len(cv)
            /\ \A c \in 1..Len(file.table) :
                  file.table[c] = <<cv[c], analysis_obj.gauss_centroids[c],
                                    analysis_obj.gauss_widths[c], analysis_obj.gauss_fwhms[c],
                                    analysis_obj.gauss_resolutions[c], analysis_obj.gauss_r2s[c],
                                    analysis_obj.gauss_adj_r2s[c]>>

\* C13: an object that carries Gaussian fit data (built with gauss_params,
\* after init_gauss_lists, or fitted) has every fit-result array set, of the
\* length of the parameter list, and entry i of the baselines, amplitudes,
\* centroids and widths is field 0, 1, 2, 3 of record i.
C13_FitArraysParallel ==
    pc = "carrying" =>
        LET gp == call.gauss_params
        IN  /\ analysis_obj.gauss_params = gp
            /\ \A f \in FitArrays :
                  /\ None # analysis_obj[f]
                  /\ Len(analysis_obj[f]) = Len(gp)
            /\ \A k \in 1..Len(gp) :
                  /\ analysis_obj.gauss_baselines[k]  = gp[k][1]
                  /\ analysis_obj.gauss_amplitudes[k] = gp[k][2]
                  /\ analysis_obj.gauss_centroids[k]  = gp[k][3]
                  /\ analysis_obj.gauss_widths[k]     = gp[k][4]

GaussFields ==
    {"gauss_params", "gauss_baselines", "gauss_amplitudes", "gauss_centroids",
     "gauss_widths", "gauss_fwhms", "gauss_adj_r2s", "gauss_fits", "gauss_covariances",
     "gauss_r2s", "gauss_resolutions", "gauss_fit_stats"}

Unfitted(obj) == \A f \in GaussFields : None = obj[f]

\* C14: fit results are present only after fitting: the object returned by
\* process_raw_obj (built by the constructor without gauss_params) and the
\* object returned by average_ciu, whatever its inputs carry, have every
\* Gaussian field unset.
C14_UnfittedUntilFitted ==
    /\ pc = "gauss" => Unfitted(analysis_obj)
    /\ (call.op = "average_ciu" /\ error = NoError) =>
          /\ Unfitted(averaged_obj)
          /\ Unfitted(load_analysis_obj(disk, averaged_obj.filename).val)

\* the average of replicates fitted by gaussian_fit_ciu
C14_FittedInputsAveraged ==
    /\ call.op = "average_ciu" /\ call.source = "gaussian_fit_ciu"
    /\ error = NoError
    /\ Len(analysis_obj_list) > 1
    /\ \A k \in 1..Len(analysis_obj_list) : ~Unfitted(analysis_obj_list[k])

\* ------------------------------------------------ claims on the file range
\* C19: check_file_range_entries returns the files numbered start to end
\* (counted from 1, both inclusive) in list order, an empty or non-numeric
\* entry standing for the first or the last file, and leaves
\* analysis_file_list as it was.
C19_RangeIsStartToEnd ==
    call.op = "check_file_range_entries" =>
        LET first == IF call.entry_start = None THEN 1 ELSE call.entry_start[1]
            last  == IF call.entry_end = None THEN Len(call.before) ELSE call.entry_end[1]
        IN  /\ call.files_to_read = PickIdx(call.before, first..last, 1)
            /\ analysis_file_list = call.before

\* ------------------------------------------- claims on the button handlers
\* C20: after on_button_rawfile_clicked completes without error,
\* analysis_file_list holds exactly the paths saved by this click, one per
\* selected raw file and in selection order (entry k is the snapshot saved
\* for the raw object read from selected file k), nothing of the earlier
\* list, and output_dir is the directory of the first entry; with no file
\* selected the list is empty and output_dir is as before.
C20_ListIsThisClicksSaves ==
    (call.op = "rawfile" /\ error = NoError) =>
        LET sel == call.raw_files
        IN  /\ Len(analysis_file_list) = Len(sel)
            /\ \A k \in 1..Len(sel) :
                  /\ analysis_file_list[k] = call.produced[k].path
                  /\ analysis_file_list[k] \in DOMAIN disk
                  /\ call.produced[k].raw =
                        get_data(sel[k], call.before.disk[sel[k]].table).val
                  /\ call.produced[k].obj.raw_obj = call.produced[k].raw
            /\ IF Len(sel) > 0
               THEN output_dir = dirname(analysis_file_list[1])
               ELSE /\ analysis_file_list = <<>>
                    /\ output_dir = call.before.output_dir

\* two files selected while the list still holds the entries of an earlier click
C20_SecondSelectionReplacesFirst ==
    /\ call.op = "rawfile" /\ error = NoError
    /\ Len(call.raw_files) = 2
    /\ Len(call.before.analysis_file_list) > 0
    /\ call.before.analysis_file_list[1] # analysis_file_list[1]
    /\ output_dir # call.before.output_dir

\* the raw object as get_data read it from the raw file at path
AsLoaded(path) == get_data(path, RawTable(path)).val

\* C15: raw objects are never mutated and never swapped: at any point of a
\* session the raw files on disk are as they were, every analysis snapshot
\* on disk holds raw objects (raw_obj, and raw_obj_list of an average)
\* equal in data, axes and file name to what was loaded from their file,
\* every object a handler produced refers to the raw object it was created
\* with, and a fitted or averaged object to the raw object(s) of its input(s).
C15_RawObjectsStayAsLoaded ==
    /\ \A q \in GuiRawPaths : disk[q] = [kind |-> "csv", table |-> RawTable(q)]
    /\ \A q \in DOMAIN disk :
          disk[q].kind = "ciu" =>
             \E obj \in {load_analysis_obj(disk, q).val} :
                /\ obj.raw_obj.filepath \in GuiRawPaths
                /\ obj.raw_obj = AsLoaded(obj.raw_obj.filepath)
                /\ "raw_obj_list" \in DOMAIN obj =>
                      \A j \in 1..Len(obj.raw_obj_list) :
                         /\ obj.raw_obj_list[j].filepath \in GuiRawPaths
                         /\ obj.raw_obj_list[j] = AsLoaded(obj.raw_obj_list[j].filepath)
    /\ call.op = "rawfile" =>
          \A k \in 1..Len(call.produced) :
             /\ call.produced[k].raw = AsLoaded(call.raw_files[k])
             /\ call.produced[k].obj.raw_obj = call.produced[k].raw
             /\ load_analysis_obj(disk, call.produced[k].path).val.raw_obj =
                   call.produced[k].raw
    /\ call.op = "gaussfit" =>
          \A k \in 1..Len(call.new_file_list) :
             load_analysis_obj(disk, call.new_file_list[k]).val.raw_obj =
                load_analysis_obj(call.before.disk, call.files_to_read[k]).val.raw_obj
    /\ (call.op = "oldavg" /\ error = NoError) =>
          /\ Len(averaged_obj.raw_obj_list) = Len(call.files_to_read)
          /\ averaged_obj.raw_obj = averaged_obj.raw_obj_list[1]
          /\ \A k \in 1..Len(call.files_to_read) :
                averaged_obj.raw_obj_list[k] =
                   load_analysis_obj(call.before.disk, call.files_to_read[k]).val.raw_obj

\* two processed files averaged: the averaged snapshot and the snapshots of
\* both inputs are on disk
C15_AveragedAfterProcessing ==
    /\ call.op = "oldavg" /\ error = NoError
    /\ Len(call.files_to_read) = 2
    /\ averaged_obj.raw_obj_list[1] # averaged_obj.raw_obj_list[2]
    /\ averaged_obj.filename \in DOMAIN disk

\* C16: the params of an analysis object are the snapshot it was produced
\* with: after on_button_paramload_clicked has loaded a parameter file,
\* every analysis file that was on disk still carries the params it had,
\* and the objects produced by a click on the raw-file button carry the
\* parameters in force at that click, in memory and in their snapshots.
C16_ParamsAreTheSnapshot ==
    /\ (call.op = "paramload" /\ error = NoError) =>
          \A q \in DOMAIN call.before.disk :
             call.before.disk[q].kind = "ciu" =>
                /\ q \in DOMAIN disk
                /\ load_analysis_obj(disk, q).val.params =
                      load_analysis_obj(call.before.disk, q).val.params
    /\ call.op = "rawfile" =>
          \A k \in 1..Len(call.produced) :
             /\ call.produced[k].obj.params = call.before.params_obj
             /\ params_obj = call.before.params_obj
             /\ load_analysis_obj(disk, call.produced[k].path).val.params =
                   call.before.params_obj

\* a parameter file with other options is loaded after a raw file was processed
C16_NewParamsAfterProcessing ==
    /\ call.op = "paramload" /\ error = NoError
    /\ params_obj # call.before.params_obj
    /\ Len(analysis_file_list) > 0
    /\ load_analysis_obj(disk, analysis_file_list[1]).val.params = call.before.params_obj

\* C17: after on_button_gaussfit_clicked has run without error,
\* analysis_file_list is as before and every file of the processed range,
\* loaded from its path in the list, carries the results of fitting the
\* object that was at that path, whatever output_dir is.
C17_ListedFilesCarryTheFit ==
    (call.op = "gaussfit" /\ error = NoError) =>
        /\ analysis_file_list = call.before.analysis_file_list
        /\ \A k \in 1..Len(call.files_to_read) :
              \E now \in {load_analysis_obj(disk, call.files_to_read[k]).val} :
              \E fit \in {gaussian_fit_ciu(
                              load_analysis_obj(call.before.disk, call.files_to_read[k]).val,
                              call.before.params_obj)} :
                 /\ ~Unfitted(now)
                 /\ \A f \in GaussFields : now[f] = fit[f]

\* C18: average_ciu saves the averaged object in the directory of its
\* output_dir argument: the averaged object's filename is a path inside
\* output_dir and the snapshot is on disk at that path.
C18_AverageSavedInOutputDir ==
    Averaged =>
        /\ dirname(averaged_obj.filename) = output_dir
        /\ averaged_obj.filename \in DOMAIN disk

\* ------------------------------------------------ claims on the batch handlers
\* C21: a batch comparison of n > 2 files that ends without error
\* compares every ordered pair of list positions (i, j) with i # j exactly
\* once and no position with itself, and the report holds the header and
\* one row per comparison, n * (n - 1) rows, also when a path occurs at two
\* positions.
C21_AllPairsNoSelf ==
    (call.op = "oldcompare" /\ error = NoError /\ Len(call.files_to_read) > 2) =>
        LET n      == Len(call.files_to_read)
            report == disk[join(output_dir, RmsdFile)].lines
        IN  /\ Len(report) = 1 + n * (n - 1)
            /\ report[1] = RmsdHeader
            /\ Len(call.compared) = n * (n - 1)
            /\ \A i, j \in 1..n :
                  Cardinality({k \in 1..Len(call.compared) : call.compared[k] = <<i, j>>})
                     = IF i = j THEN 0 ELSE 1

\* C22: after a feature-detection click that ends without error, the
\* feature output of every processed file is in some output file on disk,
\* whatever the combine_output_file settings of the files of the batch.
C22_EveryFeatureOutputWritten ==
    (call.op = "feature_detect" /\ error = NoError) =>
        \A k \in 1..Len(call.outputs) :
           \E q \in DOMAIN disk :
              /\ disk[q].kind = "text"
              /\ \E c \in 1..Len(disk[q].chunks) :
                    /\ disk[q].chunks[c][1] =
                          rstrip(basename(call.new_file_list[k]), Chars(CiuSuffix))
                    /\ disk[q].chunks[c][2] = call.outputs[k]

\* a path whose name carries the append of crop or delta-DT
EndsWith(s, t) == Len(s) >= Len(t) /\ SubSeq(s, Len(s) - Len(t) + 1, Len(s)) = t

IsEdited(p) ==
    \/ EndsWith(basename(p), CropAppend \o file_extension)
    \/ EndsWith(basename(p), DeltaAppend \o file_extension)

\* C23: a Gaussian-fit click that ends without error, on a file P made by
\* crop or delta-DT and with output_dir the directory of P, saves the
\* fitted object at P and leaves every .ciu file that is not among the
\* files fitted as it was before the click.
C23_ResaveKeepsOtherFiles ==
    (call.op = "gaussfit" /\ error = NoError) =>
        \A k \in 1..Len(call.files_to_read) :
           LET P == call.files_to_read[k]
           IN  (IsEdited(P) /\ dirname(P) = output_dir) =>
                  /\ call.new_file_list[k] = P
                  /\ ~Unfitted(load_analysis_obj(disk, P).val)
                  /\ \A q \in DOMAIN disk :
                        (disk[q].kind = "ciu"
                           /\ \A j \in 1..Len(call.files_to_read) : call.files_to_read[j] # q)
                        => (q \in DOMAIN call.before.disk /\ disk[q] = call.before.disk[q])

\* C24: after a crop or delta-DT click that ends without error,
\* analysis_file_list is the list of the files saved by the click, one per
\* file of the selected range and in its order, each on disk in output_dir;
\* a CSV copy is written for a file exactly when save_output_csv is set,
\* and it is written into output_dir.
C24_ListReplacedCsvInOutputDir ==
    (call.op \in {"crop", "delta_dt"} /\ error = NoError) =>
        LET append == IF call.op = "crop" THEN CropAppend ELSE DeltaAppend
            n      == Len(call.files_to_read)
        IN  /\ analysis_file_list = call.new_file_list
            /\ Len(analysis_file_list) = n
            /\ \A k \in 1..n :
                  /\ analysis_file_list[k] =
                        picklefile(load_analysis_obj(call.before.disk,
                                                     call.files_to_read[k]).val,
                                   append, output_dir)
                  /\ analysis_file_list[k] \in DOMAIN disk
                  /\ disk[analysis_file_list[k]].kind = "ciu"
                  /\ dirname(analysis_file_list[k]) = output_dir
            /\ Len(call.csv_list) = IF params_obj.save_output_csv THEN n ELSE 0
            /\ \A k \in 1..Len(call.csv_list) :
                  /\ call.csv_list[k] \in DOMAIN disk
                  /\ disk[call.csv_list[k]].kind = "csv"
                  /\ dirname(call.csv_list[k]) = output_dir

\* C25: when the analysis-file chooser is cancelled (nothing selected) the
\* handler leaves output_dir as it was and ends without an exception; when
\* files are selected, analysis_file_list is the selection and output_dir
\* is the directory of the first selected file.
C25_CancelKeepsOutputDir ==
    call.op = "analysisfile" =>
        IF Len(call.analysis_files) = 0
        THEN output_dir = call.before.output_dir /\ error = NoError
        ELSE /\ analysis_file_list = call.analysis_files
             /\ output_dir = dirname(call.analysis_files[1])
             /\ error = NoError

\* a cancelled chooser after a click that selected files of dirB
C25_CancelAfterSelection ==
    /\ call.op = "analysisfile"
    /\ Len(call.analysis_files) = 0
    /\ Len(call.before.analysis_file_list) > 0
    /\ call.before.output_dir = "dirB"
    /\ output_dir = "dirB"
    /\ error = NoError

====
